---- MODULE Spec2Model ----
(***************************************************************************)
(* Model of the floor-plan tiler (src/app.py, src/function_app.py) and of  *)
(* the annotation coordinate mapping (src/pdf_annotation.py).              *)
(*                                                                         *)
(* Numbers the code holds as Python floats are exact rationals here        *)
(* ([n, d] with d > 0, kept in lowest terms); int() is truncation.         *)
(* An image is its size plus the bounding box of its foreground pixels     *)
(* (what mask.getbbox() returns), which is all trimming reads of it.       *)
(***************************************************************************)
EXTENDS Integers, Sequences, FiniteSets, TLC

(* ---------------------------------------------------------------------- *)
(* Arithmetic helpers                                                      *)
(* ---------------------------------------------------------------------- *)
Max(a, b) == IF a >= b THEN a ELSE b

Min(a, b) == IF a <= b THEN a ELSE b

Abs(a) == IF a >= 0 THEN a ELSE -a

RECURSIVE GCD(_, _)
GCD(a, b) == IF b = 0 THEN a ELSE GCD(b, a % b)

RECURSIVE Pow2(_)
Pow2(k) == IF k <= 0 THEN 1 ELSE 2 * Pow2(k - 1)

\* The rational n/d (d # 0) in lowest terms with a positive denominator.
Rat(n, d) ==
    LET g == GCD(Abs(n), Abs(d))
        s == IF d < 0 THEN -1 ELSE 1
    IN  [n |-> (s * n) \div g, d |-> (s * d) \div g]

RInt(k) == [n |-> k, d |-> 1]

RMul(a, b) == Rat(a.n * b.n, a.d * b.d)

RDiv(a, b) == Rat(a.n * b.d, a.d * b.n)

RAdd(a, b) == Rat(a.n * b.d + b.n * a.d, a.d * b.d)

RSub(a, b) == Rat(a.n * b.d - b.n * a.d, a.d * b.d)

RNeg(a) == [n |-> -a.n, d |-> a.d]

RLe(a, b) == a.n * b.d <= b.n * a.d

RLt(a, b) == a.n * b.d < b.n * a.d

RMin(a, b) == IF RLe(a, b) THEN a ELSE b

RMax(a, b) == IF RLe(a, b) THEN b ELSE a

RAbs(a) == [n |-> Abs(a.n), d |-> a.d]

\* floor and ceiling of a rational
RFloor(a) == a.n \div a.d

RCeil(a) == -((-a.n) \div a.d)

\* Python's int(x): truncation toward zero
PyInt(a) == IF a.n >= 0 THEN a.n \div a.d ELSE -((-a.n) \div a.d)

\* math.ceil(a / b) for integers a >= 0, b > 0
CeilDiv(a, b) == (a + b - 1) \div b

\* math.ceil(math.log2(a / b)) for integers a, b > 0: the least k, negative
\* when a < b, with a <= b * 2^k.
RECURSIVE CeilLog2Up(_, _, _)
CeilLog2Up(a, b, k) == IF a <= b * Pow2(k) THEN k ELSE CeilLog2Up(a, b, k + 1)

RECURSIVE CeilLog2Down(_, _, _)
CeilLog2Down(a, b, k) ==
    IF a * Pow2(k + 1) <= b THEN CeilLog2Down(a, b, k + 1) ELSE -k

CeilLog2(a, b) == IF a > b THEN CeilLog2Up(a, b, 1) ELSE CeilLog2Down(a, b, 0)

\* math.floor(math.log2(a / b)) for integers a, b > 0
RECURSIVE FloorLog2(_, _)
FloorLog2(a, b) ==
    IF a < b THEN FloorLog2(2 * a, b) - 1
    ELSE IF a >= 2 * b THEN FloorLog2(a, 2 * b) + 1
    ELSE 0

\* a <= b * 2^k for any integer k
LeScaled(a, b, k) == IF k >= 0 THEN a <= b * Pow2(k) ELSE a * Pow2(-k) <= b

\* Naturals beyond the machine word, as the sequence of their digits in
\* base BigBase, least significant first, without leading zeros.
BigBase == 10000

RECURSIVE BigOf(_)
BigOf(n) == IF n < BigBase THEN <<n>> ELSE <<n % BigBase>> \o BigOf(n \div BigBase)

RECURSIVE BigCarry(_, _)
BigCarry(c, carry) ==
    IF c = <<>> THEN (IF carry = 0 THEN <<>> ELSE BigOf(carry))
    ELSE <<(Head(c) + carry) % BigBase>> \o BigCarry(Tail(c), (Head(c) + carry) \div BigBase)

RECURSIVE BigTrim(_)
BigTrim(a) ==
    IF Len(a) > 1 /\ a[Len(a)] = 0 THEN BigTrim(SubSeq(a, 1, Len(a) - 1)) ELSE a

\* the coefficient of BigBase^(k-1) in a * b, before the carries
RECURSIVE BigConv(_, _, _, _)
BigConv(a, b, k, i) ==
    IF i > Len(a) THEN 0
    ELSE (IF k + 1 - i \in DOMAIN b THEN a[i] * b[k + 1 - i] ELSE 0) + BigConv(a, b, k, i + 1)

BigMul(a, b) ==
    BigTrim(BigCarry([k \in 1..(Len(a) + Len(b) - 1) |-> BigConv(a, b, k, 1)], 0))

RECURSIVE BigLeAt(_, _, _)
BigLeAt(a, b, i) ==
    IF i = 0 THEN TRUE
    ELSE IF a[i] # b[i] THEN a[i] < b[i]
    ELSE BigLeAt(a, b, i - 1)

BigLe(a, b) == IF Len(a) # Len(b) THEN Len(a) < Len(b) ELSE BigLeAt(a, b, Len(a))

\* int(x * (limit / pixels) ** 0.5) for a rational x >= 0 and big naturals
\* limit < pixels: the greatest k in lo..hi with
\* k^2 * pixels * x.d^2 <= x.n^2 * limit, by bisection.
RECURSIVE IntOfRootScaledIn(_, _, _, _, _)
IntOfRootScaledIn(x, limit, pixels, lo, hi) ==
    IF lo >= hi THEN lo
    ELSE LET mid == (lo + hi + 1) \div 2
             lhs == BigMul(BigMul(BigOf(mid), BigOf(mid)),
                           BigMul(pixels, BigMul(BigOf(x.d), BigOf(x.d))))
             rhs == BigMul(BigMul(BigOf(x.n), BigOf(x.n)), limit)
         IN  IF BigLe(lhs, rhs) THEN IntOfRootScaledIn(x, limit, pixels, mid, hi)
             ELSE IntOfRootScaledIn(x, limit, pixels, lo, mid - 1)

IntOfRootScaled(x, limit, pixels) == IntOfRootScaledIn(x, limit, pixels, 0, x.n \div x.d)

(* ---------------------------------------------------------------------- *)
(* Program constants                                                       *)
(* ---------------------------------------------------------------------- *)
SupportedTileSizes == {128, 256, 512, 1024}

DefaultTileSize == 256

TrimPadding == 20

DetectScale == 2

MAX_ZOOM_LIMIT == 12

FUNC_MAX_ZOOM_LIMIT == 15

FUNC_FORCED_MAX_Z == 10

FUNC_TILE_SIZE == 512

FUNC_MIN_ZOOM == 0

FUNC_PDF_SCALE == 15

FUNC_MAX_DIMENSION == 30000

MAX_SAFE_PIXELS == 300000000

\* "no bounding box" / "nothing cropped" / "no value yet"
NoBox == <<>>

None == "None"

(* ---------------------------------------------------------------------- *)
(* Bounds of the model                                                     *)
(* ---------------------------------------------------------------------- *)
\* ZOOM_BOOST ranges over 0..MaxZoomBoost (the default of the code is 4)
MaxZoomBoost == 4

\* a document holds 0..MaxPages pages
MaxPages == 2

\* at most MaxJobs jobs are submitted
MaxJobs == 2

\* delete requests taken in one behaviour, and file_ids in one mass request
MaxDeletes == 1

MaxMassItems == 2

\* annotate-pdf requests taken in one behaviour, and objects in one request
MaxAnnotations == 1

MaxObjects == 2

(* ---------------------------------------------------------------------- *)
(* Rasterization: pdf_to_images                                            *)
(* ---------------------------------------------------------------------- *)
\* A page is [w, h, content]: its size in points and the bounding box
\* <<x0, y0, x1, y1>> (points) of what is drawn on it, NoBox when blank.
\* Rendered at `scale` it gives a raster of int(w*scale) x int(h*scale)
\* pixels whose foreground covers every pixel the content touches.
RenderPage(page, scale) ==
    LET w == PyInt(RMul(RInt(page.w), scale))
        h == PyInt(RMul(RInt(page.h), scale))
        c == page.content
        l == IF c = NoBox THEN 0 ELSE RFloor(RMul(RInt(c[1]), scale))
        t == IF c = NoBox THEN 0 ELSE RFloor(RMul(RInt(c[2]), scale))
        r == IF c = NoBox THEN 0 ELSE Min(w, RCeil(RMul(RInt(c[3]), scale)))
        b == IF c = NoBox THEN 0 ELSE Min(h, RCeil(RMul(RInt(c[4]), scale)))
    IN  [w |-> w, h |-> h,
         fg |-> IF c = NoBox \/ l >= r \/ t >= b THEN NoBox ELSE <<l, t, r, b>>]

\* app.py: the scale a page is rendered at (actual_scale)
ActualScaleApp(page, scale, max_dimension) ==
    LET target_width  == PyInt(RMul(RInt(page.w), scale))
        target_height == PyInt(RMul(RInt(page.h), scale))
    IN  IF target_width > max_dimension \/ target_height > max_dimension
        THEN LET scale_factor == Rat(max_dimension, Max(target_width, target_height))
             IN  RMul(scale, scale_factor)
        ELSE scale

\* function_app.py: the scale handed to page.render().  target_width and
\* target_height are reassigned inside the reducing branch, so the test of
\* the render call reads the reduced targets.
ActualScaleFunc(page, scale, max_dimension) ==
    LET target_width0  == PyInt(RMul(RInt(page.w), scale))
        target_height0 == PyInt(RMul(RInt(page.h), scale))
        reduce         == target_width0 > max_dimension \/ target_height0 > max_dimension
        new_scale      == IF reduce
                          THEN RMul(scale, Rat(max_dimension, Max(target_width0, target_height0)))
                          ELSE scale
        target_width   == IF reduce THEN PyInt(RMul(RInt(page.w), new_scale)) ELSE target_width0
        target_height  == IF reduce THEN PyInt(RMul(RInt(page.h), new_scale)) ELSE target_height0
    IN  IF target_width <= max_dimension /\ target_height <= max_dimension
        THEN scale
        ELSE new_scale

ActualScale(v, page, scale, max_dimension) ==
    IF v = "app" THEN ActualScaleApp(page, scale, max_dimension)
    ELSE ActualScaleFunc(page, scale, max_dimension)

\* pdf_to_images: one image per page, each rendered at its actual scale
pdf_to_images(v, pages, scale, max_dimension) ==
    [i \in 1..Len(pages) |->
        RenderPage(pages[i], ActualScale(v, pages[i], scale, max_dimension))]

(* ---------------------------------------------------------------------- *)
(* Whitespace trimming                                                     *)
(* ---------------------------------------------------------------------- *)
\* a box expanded by the padding without regard to the image bounds
PaddedBoxUnclamped(image, padding) ==
    << image.fg[1] - padding, image.fg[2] - padding,
       image.fg[3] + padding, image.fg[4] + padding >>

\* "Expand bbox by padding, clamped to image bounds"
PaddedBox(image, padding) ==
    << Max(0, image.fg[1] - padding),
       Max(0, image.fg[2] - padding),
       Min(image.w, image.fg[3] + padding),
       Min(image.h, image.fg[4] + padding) >>

\* img.crop(box), with the crop box that was applied
CropTo(image, box) ==
    [image |-> [w  |-> box[3] - box[1],
                h  |-> box[4] - box[2],
                fg |-> <<image.fg[1] - box[1], image.fg[2] - box[2],
                         image.fg[3] - box[1], image.fg[4] - box[2]>>],
     box   |-> box]

\* the input returned as it is
Untrimmed(image) == [image |-> image, box |-> NoBox]

\* a trim that returns an empty image when it finds no content
trim_whitespace_blank_empty(image, padding) ==
    IF image.fg = NoBox
    THEN [image |-> [w |-> 0, h |-> 0, fg |-> NoBox], box |-> <<0, 0, 0, 0>>]
    ELSE IF PaddedBox(image, padding) = <<0, 0, image.w, image.h>>
    THEN Untrimmed(image)
    ELSE CropTo(image, PaddedBox(image, padding))

\* a trim that crops to the content box itself whenever it is smaller
\* than the image
trim_whitespace_tight(image, padding) ==
    IF image.fg = NoBox
    THEN Untrimmed(image)
    ELSE IF image.fg = <<0, 0, image.w, image.h>>
    THEN Untrimmed(image)
    ELSE CropTo(image, image.fg)

\* trim_whitespace (the body of its try): the returned image and the crop
\* box that was applied (NoBox when the input is returned as it is).
trim_whitespace(image, padding) ==
    IF image.fg = NoBox
    THEN Untrimmed(image)
    ELSE IF PaddedBox(image, padding) = <<0, 0, image.w, image.h>>
    THEN Untrimmed(image)
    ELSE CropTo(image, PaddedBox(image, padding))

\* a trim that hands back nothing when its body raised
trim_whitespace_lossy(image, padding, raised) ==
    IF raised THEN [image |-> [w |-> 1, h |-> 1, fg |-> NoBox], box |-> NoBox]
    ELSE trim_whitespace(image, padding)

\* trim_whitespace with its except branch: when the body raised (raised,
\* an event of the runtime), the input image is returned.
trim_whitespace_guarded(image, padding, raised) ==
    IF raised THEN Untrimmed(image)
    ELSE trim_whitespace(image, padding)

(* ---------------------------------------------------------------------- *)
(* Smart scale selection (app.py only)                                     *)
(* ---------------------------------------------------------------------- *)
\* The scale chosen from the page size (points; 72 points = 1 inch), the
\* presence of embedded images and the file size.
SelectScale(page, scale, has_images, is_complex_plan) ==
    LET max_pt  == Max(page.w, page.h)
        min_pt  == Min(page.w, page.h)
        byKind  ==
            IF max_pt >= 36 * 72 THEN scale
            ELSE IF max_pt >= 24 * 72 THEN RMin(scale, RInt(30))
            ELSE IF max_pt >= 17 * 72
                 THEN IF has_images THEN RMin(scale, RInt(15))
                      ELSE RMin(scale, RInt(IF is_complex_plan THEN 30 ELSE 20))
            ELSE IF max_pt >= 11 * 72
                 THEN IF has_images THEN RMin(scale, RInt(12))
                      ELSE RMin(scale, RInt(IF is_complex_plan THEN 30 ELSE 15))
            ELSE RMin(scale, RInt(10))
    IN  IF 2 * max_pt > 5 * min_pt /\ max_pt >= 20 * 72
        THEN RMin(RMul(byKind, Rat(3, 2)), scale)
        ELSE byKind

\* "Final safety check: Don't exceed memory limits".  The reduced scale
\* target_scale * (MAX_SAFE_PIXELS / potential_pixels) ** 0.5 is irrational
\* in general; it is represented by the least scale under which the page
\* has the same projected raster int(w * scale) x int(h * scale).
MemorySafeScale(page, target_scale) ==
    LET potential_width  == PyInt(RMul(RInt(page.w), target_scale))
        potential_height == PyInt(RMul(RInt(page.h), target_scale))
        potential_pixels == BigMul(BigOf(potential_width), BigOf(potential_height))
        limit            == BigOf(MAX_SAFE_PIXELS)
    IN  IF ~BigLe(potential_pixels, limit)
        THEN LET w == IntOfRootScaled(RMul(RInt(page.w), target_scale), limit, potential_pixels)
                 h == IntOfRootScaled(RMul(RInt(page.h), target_scale), limit, potential_pixels)
             IN  RMax(Rat(w, page.w), Rat(h, page.h))
        ELSE target_scale

SmartScale(page, scale, has_images, is_complex_plan) ==
    MemorySafeScale(page, SelectScale(page, scale, has_images, is_complex_plan))

(* ---------------------------------------------------------------------- *)
(* Zoom planning                                                           *)
(* ---------------------------------------------------------------------- *)
Clamp(x, lo, hi) == Max(lo, Min(x, hi))

\* The planner of the specification text (4.2 ZoomPlanner): the boost is
\* reduced when the shorter side at zoom 0 falls under half a tile.
PlanMaxZoomReduced(image, tileSize, forced_max_z, zoom_boost) ==
    IF forced_max_z = -1
    THEN LET maxDim   == Max(image.w, image.h)
             minDim   == Min(image.w, image.h)
             baseZoom == CeilLog2(maxDim, tileSize)
             \* minDim / 2^(baseZoom + zoomBoost) < tileSize / 2
             collapses == ~LeScaled(tileSize, 2 * minDim, -(baseZoom + zoom_boost))
             adjustedBoost == Max(0, FloorLog2(2 * minDim, tileSize) - baseZoom)
         IN  IF collapses
             THEN Clamp(baseZoom + adjustedBoost, 0, MAX_ZOOM_LIMIT)
             ELSE Clamp(baseZoom + zoom_boost, 0, MAX_ZOOM_LIMIT)
    ELSE Clamp(forced_max_z, 0, MAX_ZOOM_LIMIT)

\* app.py: max_zoom, auto-derived when FORCED_MAX_Z is -1
PlanMaxZoomApp(image, tileSize, forced_max_z, zoom_boost) ==
    IF forced_max_z = -1
    THEN LET max_dim      == Max(image.w, image.h)
             optimal_zoom == CeilLog2(max_dim, tileSize)
             boosted_zoom == optimal_zoom + zoom_boost
         IN  Max(0, Min(boosted_zoom, MAX_ZOOM_LIMIT))
    ELSE Max(0, Min(forced_max_z, MAX_ZOOM_LIMIT))

\* function_app.py: max_zoom is always the forced one
PlanMaxZoomFunc(image, tileSize, forced_max_z, zoom_boost) ==
    Max(0, Min(forced_max_z, FUNC_MAX_ZOOM_LIMIT))

PlanMaxZoom(v, image, tileSize, forced_max_z, zoom_boost) ==
    IF v = "app" THEN PlanMaxZoomApp(image, tileSize, forced_max_z, zoom_boost)
    ELSE PlanMaxZoomFunc(image, tileSize, forced_max_z, zoom_boost)

\* a planner that does not clamp the requested minimum at 0
PlanMinZoomNoFloor(min_zoom_env, maxZoom) == Min(min_zoom_env, maxZoom)

PlanMinZoom(min_zoom_env, maxZoom) == Max(0, Min(min_zoom_env, maxZoom))

MaxZoomLimitOf(v) == IF v = "app" THEN MAX_ZOOM_LIMIT ELSE FUNC_MAX_ZOOM_LIMIT

\* list(range(min_zoom, max_zoom + 1))
ZoomRange(lo, hi) == [i \in 1..(hi - lo + 1) |-> lo + i - 1]

\* sorted(zoom_levels, reverse=True) of a range
Descending(lo, hi) == [i \in 1..(hi - lo + 1) |-> hi - i + 1]

(* ---------------------------------------------------------------------- *)
(* SimpleFloorplanTiler                                                    *)
(* ---------------------------------------------------------------------- *)
\* A tile image is [w, h, src, at, cw, ch, pad_alpha]: a w x h canvas that
\* holds the pixels src = <<x1, y1, x2, y2>> of the sliced raster, drawn
\* cw x ch pixels large with their top-left corner at `at`; every other
\* pixel of the canvas has alpha pad_alpha.
\* a slicer that does not clip the last column and row to the raster
CreateTileNoClamp(tileSize, tx, ty, img_width, img_height) ==
    LET x1 == tx * tileSize
        y1 == ty * tileSize
    IN  [w |-> tileSize, h |-> tileSize,
         src |-> <<x1, y1, x1 + tileSize, y1 + tileSize>>,
         at |-> <<0, 0>>, cw |-> tileSize, ch |-> tileSize, pad_alpha |-> 0]

\* a slicer that returns edge tiles as cropped, without the padding
CreateTileUnpadded(tileSize, tx, ty, img_width, img_height) ==
    LET x1 == tx * tileSize
        y1 == ty * tileSize
        x2 == Min(x1 + tileSize, img_width)
        y2 == Min(y1 + tileSize, img_height)
    IN  [w |-> x2 - x1, h |-> y2 - y1, src |-> <<x1, y1, x2, y2>>,
         at |-> <<0, 0>>, cw |-> x2 - x1, ch |-> y2 - y1, pad_alpha |-> 0]

CreateTile(tileSize, tx, ty, img_width, img_height) ==
    LET x1 == tx * tileSize
        y1 == ty * tileSize
        x2 == Min(x1 + tileSize, img_width)
        y2 == Min(y1 + tileSize, img_height)
        tw == x2 - x1
        th == y2 - y1
    IN  IF tw < tileSize \/ th < tileSize
        THEN [w |-> tileSize, h |-> tileSize, src |-> <<x1, y1, x2, y2>>,
              at |-> <<0, 0>>, cw |-> tw, ch |-> th, pad_alpha |-> 0]
        ELSE [w |-> tw, h |-> th, src |-> <<x1, y1, x2, y2>>,
              at |-> <<0, 0>>, cw |-> tw, ch |-> th, pad_alpha |-> 0]

\* round(n / d) for integers n >= 0, d > 0, a tie going to the even
\* neighbour
RoundDiv(n, d) ==
    LET q == n \div d
        r == n % d
    IN  IF 2 * r < d THEN q
        ELSE IF 2 * r > d THEN q + 1
        ELSE IF q % 2 = 0 THEN q ELSE q + 1

\* a scaled size that rounds to the nearest integer instead of truncating
ScaledDimRound(full, zoom, maxZoom) == RoundDiv(full, Pow2(maxZoom - zoom))

\* a scaled size that rounds up instead of truncating
ScaledDimCeil(full, zoom, maxZoom) == CeilDiv(full, Pow2(maxZoom - zoom))

\* int(full * 2 ** (zoom - max_zoom)) for zoom <= max_zoom
ScaledDim(full, zoom, maxZoom) == full \div Pow2(maxZoom - zoom)

\* The rasters the tiler holds: the source image and the resample of a level
NoRaster == [kind |-> "none", zoom |-> -1]

SourceRaster == [kind |-> "source", zoom |-> -1]

Resample(zoom) == [kind |-> "resample", zoom |-> zoom]

\* scaled_img of a level: "if zoom == max_zoom: scaled_img = source_img"
ScaledImg(zoom, maxZoom) == IF zoom = maxZoom THEN SourceRaster ELSE Resample(zoom)

\* a tiler that closes nothing
ReleasesNone(zoom, maxZoom) == FALSE

\* "Release scaled image from memory if it's not the original"
ReleasesScaled(zoom, maxZoom) == zoom # maxZoom

\* _generate_zoom_level: the (tx, ty, tile) list of one zoom level, row by
\* row; raised is TRUE when Image.resize is handed a size with a zero side,
\* which it rejects with ValueError.
GenerateZoomLevel(tileSize, full_width, full_height, zoom, maxZoom) ==
    LET scaled_width  == ScaledDim(full_width, zoom, maxZoom)
        scaled_height == ScaledDim(full_height, zoom, maxZoom)
        tiles_x       == CeilDiv(scaled_width, tileSize)
        tiles_y       == CeilDiv(scaled_height, tileSize)
    IN  IF zoom # maxZoom /\ (scaled_width < 1 \/ scaled_height < 1)
        THEN [raised |-> TRUE, size |-> <<scaled_width, scaled_height>>, tiles |-> <<>>]
        ELSE [raised |-> FALSE,
              size   |-> <<scaled_width, scaled_height>>,
              tiles  |-> [i \in 1..(tiles_x * tiles_y) |->
                            LET tx == (i - 1) % tiles_x
                                ty == (i - 1) \div tiles_x
                            IN  [x |-> tx, y |-> ty,
                                 img |-> CreateTile(tileSize, tx, ty,
                                                    scaled_width, scaled_height)]]]

(* ---------------------------------------------------------------------- *)
(* Metadata                                                                *)
(* ---------------------------------------------------------------------- *)
RECURSIVE SumLens(_, _)
SumLens(f, S) ==
    IF S = {} THEN 0
    ELSE LET z == CHOOSE z \in S : TRUE IN Len(f[z]) + SumLens(f, S \ {z})

\* a total that counts the tiles of the deepest level only
TopLevelTiles(pyr) ==
    IF DOMAIN pyr = {} THEN 0
    ELSE Len(pyr[CHOOSE z \in DOMAIN pyr : \A y \in DOMAIN pyr : y <= z])

\* sum(len(tiles) for tiles in pyramid.values())
TotalTiles(pyr) == SumLens(pyr, DOMAIN pyr)

\* create_metadata plus the total_tiles and quality_settings the caller adds
CreateMetadata(image, maxZoom, tileSize, minZoom, zoomLevels, total, scale, max_dimension) ==
    [source_image  |-> [width |-> image.w, height |-> image.h],
     tile_size     |-> tileSize,
     max_zoom      |-> maxZoom,
     min_zoom      |-> Max(0, minZoom),
     zoom_levels   |-> IF zoomLevels # <<>> THEN zoomLevels
                       ELSE ZoomRange(Max(0, minZoom), maxZoom),
     bounds        |-> <<<<0, 0>>, <<image.h, image.w>>>>,
     total_tiles   |-> total,
     pdf_scale     |-> scale,
     max_dimension |-> max_dimension]

(* ---------------------------------------------------------------------- *)
(* Annotation: trim offset detection and coordinate mapping                *)
(* ---------------------------------------------------------------------- *)
\* a size test that compares the widths only
SizesMatchWidthOnly(page, md) ==
    RLe(RAbs(RSub(RMul(RInt(page.w), md.pdf_scale), RInt(md.source_image.width))), RInt(1))

\* "Check if trimming occurred (allow 1px tolerance for rounding)"
SizesMatch(page, md) ==
    LET pdf_scale  == md.pdf_scale
        img_w      == md.source_image.width
        img_h      == md.source_image.height
        pretrim_w  == RMul(RInt(page.w), pdf_scale)
        pretrim_h  == RMul(RInt(page.h), pdf_scale)
    IN  /\ RLe(RAbs(RSub(pretrim_w, RInt(img_w))), RInt(1))
        /\ RLe(RAbs(RSub(pretrim_h, RInt(img_h))), RInt(1))

\* a detection that takes the page origin for the box of a blank page
DetectBBoxOrPage(page) ==
    IF RenderPage(page, RInt(DetectScale)).fg = NoBox
    THEN <<DetectScale * page.w, DetectScale * page.h,
           DetectScale * page.w, DetectScale * page.h>>
    ELSE RenderPage(page, RInt(DetectScale)).fg

\* the detection pass: the page re-rendered at detect_scale and the
\* bounding box of its foreground
DetectBBox(page) == RenderPage(page, RInt(DetectScale)).fg

\* what detect_trim_offset did: "skipped" (sizes match, nothing rendered),
\* "no_bbox" (rendered, no foreground) or "bbox" (rendered, box found)
DetectPass(page, md) ==
    IF SizesMatch(page, md) THEN "skipped"
    ELSE IF DetectBBox(page) = NoBox THEN "no_bbox"
    ELSE "bbox"

\* detect_trim_offset: <<trim_left, trim_top>>, rationals, in pixels at
\* the pdf_scale of the metadata.
detect_trim_offset(page, md) ==
    LET pdf_scale  == md.pdf_scale
        detect     == RInt(DetectScale)
        bbox       == DetectBBox(page)
        padding_at_detect == RDiv(RMul(RInt(TrimPadding), detect), pdf_scale)
    IN  IF SizesMatch(page, md)
        THEN <<RInt(0), RInt(0)>>
        ELSE IF bbox = NoBox
        THEN <<RInt(0), RInt(0)>>
        ELSE LET left_detect == RMax(RInt(0), RSub(RInt(bbox[1]), padding_at_detect))
                 top_detect  == RMax(RInt(0), RSub(RInt(bbox[2]), padding_at_detect))
             IN  <<RDiv(RMul(left_detect, pdf_scale), detect),
                   RDiv(RMul(top_detect, pdf_scale), detect)>>

\* a mapping whose zoom factor counts 256-pixel tiles
transform_coords_tiled(leaflet_coords, md, trim_offset) ==
    LET x        == leaflet_coords[1]
        y        == leaflet_coords[2]
        scale    == Rat(Pow2(md.max_zoom) * md.tile_size, 256)
        pdf_x    == RDiv(RAdd(RMul(x, scale), trim_offset[1]), md.pdf_scale)
        pdf_y    == RDiv(RAdd(RMul(RNeg(y), scale), trim_offset[2]), md.pdf_scale)
    IN  <<pdf_x, pdf_y>>

\* transform_coords: viewer (Leaflet CRS.Simple) point to PDF points
transform_coords(leaflet_coords, md, trim_offset) ==
    LET x        == leaflet_coords[1]
        y        == leaflet_coords[2]
        scale    == RInt(Pow2(md.max_zoom))
        pdf_x    == RDiv(RAdd(RMul(x, scale), trim_offset[1]), md.pdf_scale)
        pdf_y    == RDiv(RAdd(RMul(RNeg(y), scale), trim_offset[2]), md.pdf_scale)
    IN  <<pdf_x, pdf_y>>

\* a forward mapping that does not negate the latitude
pixelToViewerNoFlip(pixelX, pixelY, maxZoom) ==
    <<RDiv(pixelX, RInt(Pow2(maxZoom))), RDiv(pixelY, RInt(Pow2(maxZoom)))>>

\* The forward mapping of the viewer: image pixel to CRS.Simple point
\* (lng = pixel_x / 2^maxZoom, lat = -pixel_y / 2^maxZoom).
pixelToViewer(pixelX, pixelY, maxZoom) ==
    <<RDiv(pixelX, RInt(Pow2(maxZoom))), RNeg(RDiv(pixelY, RInt(Pow2(maxZoom))))>>

\* generate_preview: the size of the preview; Image.resize rejects a size
\* with a zero side.
PreviewSize(image, max_width) ==
    LET preview_width  == Min(max_width, image.w)
        preview_height == (preview_width * image.h) \div image.w
    IN  <<preview_width, preview_height>>

(* ---------------------------------------------------------------------- *)
(* State                                                                   *)
(* ---------------------------------------------------------------------- *)
VARIABLES
    variant,           \* "app" (app.py) or "function_app" (function_app.py)
    pc,                \* position of the run
    env,               \* the configuration read at the start of the run
    doc,               \* the pages of the PDF
    PDF_SCALE,         \* the local PDF_SCALE (smart scaling reassigns it)
    images,            \* result of pdf_to_images (first page kept)
    floor_plan_image,  \* the image being tiled (post-trim once trimmed)
    trim_box,          \* the crop box trim_whitespace applied, NoBox if none
    trim_failed,       \* whether the body of trim_whitespace raised
    tile_size,         \* validated tile size
    max_zoom,
    min_zoom,
    todo,              \* zoom levels tile_image still has to generate
    pyramid,           \* zoom -> list of [x, y, img]
    metadata,
    scaled_img,        \* the raster _generate_zoom_level is slicing, NoRaster if none
    live,              \* the rasters of the tiler that are not closed
    trim_offset,       \* annotation: result of detect_trim_offset
    detect_pass,       \* annotation: what detect_trim_offset did to get it
    pixel,             \* annotation: image pixel the viewer point stands for, <<>> if none
    leaflet_coords,    \* annotation: viewer point of the request
    pdf_coords,        \* annotation: result of transform_coords
    jobs_store,        \* app.py: job_id -> [status, progress, message, result]
    task,              \* app.py: job_id -> position of its background task
    blobs,             \* the blobs of container "blocks" under floorplans/
    delete_log,        \* app.py: the delete requests served, with what each one did
    annotation_served  \* pdf_annotation.py: the annotate-pdf requests served

runVars == <<variant, pc, env, doc, PDF_SCALE, images, floor_plan_image,
             trim_box, trim_failed, tile_size, max_zoom, min_zoom, todo, pyramid,
             metadata>>

tilerVars == <<scaled_img, live>>

annVars == <<trim_offset, detect_pass, pixel, leaflet_coords, pdf_coords>>

jobVars == <<jobs_store, task, blobs>>

reqVars == <<delete_log, annotation_served>>

vars == <<runVars, tilerVars, annVars, jobVars, reqVars>>

NoFunc == [z \in {} |-> <<>>]

(* ---------------------------------------------------------------------- *)
(* Inputs                                                                  *)
(* ---------------------------------------------------------------------- *)
Page(w, h, c) == [w |-> w, h |-> h, content |-> c]

\* documents of k copies of a page, k in pageCounts
DocsOf(page, pageCounts) == {[i \in 1..k |-> page] : k \in pageCounts}

EnvRec(scale, maxdim, forced, boost, ts, minz) ==
    [PDF_SCALE |-> scale, MAX_DIMENSION |-> maxdim, FORCED_MAX_Z |-> forced,
     ZOOM_BOOST |-> boost, TILE_SIZE |-> ts, MIN_ZOOM |-> minz]

\* function_app.py hard-codes its configuration
FuncEnv ==
    EnvRec(RInt(FUNC_PDF_SCALE), FUNC_MAX_DIMENSION, FUNC_FORCED_MAX_Z, 0,
           FUNC_TILE_SIZE, FUNC_MIN_ZOOM)

\* End-to-end runs: (page, PDF_SCALE) pairs of app.py
AppSources ==
    { <<Page(4096, 2048, NoBox), RInt(1)>>,
      <<Page(300, 200, <<0, 50, 300, 200>>), RInt(3)>>,
      <<Page(1000, 500, <<100, 50, 900, 450>>), RInt(1)>>,
      <<Page(1000, 500, <<100, 50, 900, 450>>), RInt(2)>>,
      <<Page(1000, 500, <<101, 50, 900, 450>>), Rat(5, 2)>>,
      <<Page(60, 40, <<7, 4, 50, 30>>), RInt(10)>>,
      <<Page(60, 40, <<7, 4, 50, 30>>), RInt(40)>>,
      <<Page(2000, 100, NoBox), RInt(1)>>,
      <<Page(257, 129, <<0, 0, 257, 129>>), RInt(2)>>,
      <<Page(300, 200, <<7, 0, 300, 200>>), RInt(3)>>,
      <<Page(300, 200, <<5, 5, 295, 195>>), RInt(3)>> }

AppMaxDimensions == {1000, 30000}

\* <<FORCED_MAX_Z, ZOOM_BOOST, TILE_SIZE, MIN_ZOOM>>
AppZoomConfigs ==
    { <<-1, 4, 512, 0>>, <<-1, 2, 512, 0>>, <<-1, 0, 128, 1>>,
      <<3, 4, 256, 0>>, <<-1, 1, 100, -1>>, <<13, 4, 1024, 20>> }

\* every document of copies of a source page, under every configuration
\* built from the source's scale
InputsOf(sources, pageCounts, maxDimensions, zoomConfigs) ==
    UNION { { [pages |-> d, env |-> EnvRec(src[2], m, z[1], z[2], z[3], z[4])] :
                d \in DocsOf(src[1], pageCounts), m \in maxDimensions,
                z \in zoomConfigs } :
            src \in sources }

AppInputs == InputsOf(AppSources, 0..MaxPages, AppMaxDimensions, AppZoomConfigs)

FuncPages ==
    { Page(70, 70, <<10, 10, 60, 60>>), Page(2001, 70, NoBox), Page(100, 60, NoBox) }

FuncInputs == UNION {DocsOf(p, 0..MaxPages) : p \in FuncPages}

\* Tiling runs: blank pages of many sizes rendered at scale 1 (the image
\* has the size of the page), under many zoom configurations
TilingWidths == {1, 100, 257, 1000, 2049, 4096}

TilingHeights == {1, 129, 1000, 2048}

TileSizeInputs == SupportedTileSizes \cup {100}

MinZoomInputs == {-1, 0, 1, 20}

ForcedInputs == {-2, 0, 2, 13}

\* every width by every height, and a 20:1 strip
TilingSources ==
    { <<Page(w, h, NoBox), RInt(1)>> : w \in TilingWidths, h \in TilingHeights }
    \cup { <<Page(1040, 52, NoBox), RInt(1)>> }

TilingZoomConfigs ==
    { <<-1, b, ts, m>> : b \in 0..MaxZoomBoost, ts \in TileSizeInputs, m \in MinZoomInputs }
    \cup { <<f, 4, ts, m>> : f \in ForcedInputs, ts \in TileSizeInputs, m \in MinZoomInputs }

TilingInputs == InputsOf(TilingSources, {1}, {30000}, TilingZoomConfigs)

TilingFuncInputs == { <<Page(70, 70, NoBox)>>, <<Page(137, 69, NoBox)>> }

\* Annotation runs: pages tiled with a single zoom level, then annotated
CoordSources ==
    { <<Page(60, 40, <<7, 4, 50, 30>>), RInt(10)>>,
      <<Page(60, 40, NoBox), RInt(10)>>,
      <<Page(60, 40, NoBox), RInt(1)>>,
      <<Page(400, 300, <<0, 0, 400, 300>>), Rat(5, 2)>> }

CoordZoomConfigs == { <<f, 4, ts, 20>> : f \in {0, 3, 8}, ts \in {256, 512} }

CoordInputs == InputsOf(CoordSources, {1}, {30000}, CoordZoomConfigs)

CoordFuncInputs == { <<Page(70, 70, NoBox)>> }

\* Scale selection: large pages, most of them over the pixel ceiling at
\* the configured scale
ScaleSources ==
    { <<Page(4310, 2229, NoBox), Rat(15, 2)>>,
      <<Page(2449, 2413, <<100, 100, 2000, 2000>>), Rat(15, 2)>>,
      <<Page(3000, 3000, NoBox), RInt(10)>>,
      <<Page(5000, 5000, NoBox), RInt(40)>>,
      <<Page(3001, 2001, NoBox), Rat(25, 2)>>,
      <<Page(2593, 2593, NoBox), Rat(15, 2)>>,
      <<Page(1300, 500, NoBox), RInt(30)>>,
      <<Page(1000, 500, <<100, 50, 900, 450>>), RInt(2)>> }

ScaleZoomConfigs == { <<2, 4, 1024, 0>>, <<0, 4, 512, 0>>, <<-1, 0, 1024, 3>> }

ScaleInputs == InputsOf(ScaleSources, {1}, {30000}, ScaleZoomConfigs)

ScaleFuncInputs == { <<Page(2001, 70, NoBox)>> }

\* viewer points of annotation requests, and image pixels a user points at
ViewerPoints ==
    { <<Rat(32, 10), Rat(-15, 10)>>, <<RInt(0), RInt(0)>>, <<Rat(1, 2), Rat(-1, 4)>> }

PixelPoints == { <<RInt(x), RInt(y)>> : x \in {0, 1, 257, 470}, y \in {0, 3, 300} }

(* ---------------------------------------------------------------------- *)
(* The tiling run                                                          *)
(* ---------------------------------------------------------------------- *)
\* a configuration that takes the tile size as it is given
UncheckedTileSize(ts) == ts

\* "Validate TILE_SIZE to supported values"
ValidTileSize(ts) == IF ts \in SupportedTileSizes THEN ts ELSE DefaultTileSize

\* The configuration is read and the tile size validated: app.py reads
\* its configuration from the environment, function_app.py hard-codes it.
ConfigureWith(appInputs, funcInputs) ==
    /\ pc = "start"
    /\ \/ \E i \in appInputs :
            /\ variant' = "app"
            /\ doc' = i.pages
            /\ env' = i.env
            /\ PDF_SCALE' = i.env.PDF_SCALE
            /\ tile_size' = ValidTileSize(i.env.TILE_SIZE)
            /\ pc' = "scale"
       \/ \E d \in funcInputs :
            /\ variant' = "function_app"
            /\ doc' = d
            /\ env' = FuncEnv
            /\ PDF_SCALE' = FuncEnv.PDF_SCALE
            /\ tile_size' = ValidTileSize(FuncEnv.TILE_SIZE)
            /\ pc' = "convert"
    /\ UNCHANGED <<images, floor_plan_image, trim_box, trim_failed, max_zoom, min_zoom, todo,
                   pyramid, metadata, tilerVars, annVars, jobVars, reqVars>>

Configure == ConfigureWith(AppInputs, FuncInputs)

\* app.py: smart scaling reassigns PDF_SCALE from the first page
SmartScaling ==
    /\ pc = "scale"
    /\ IF Len(doc) > 0
       THEN \E has_images \in BOOLEAN, is_complex_plan \in BOOLEAN :
                PDF_SCALE' = SmartScale(doc[1], PDF_SCALE, has_images, is_complex_plan)
       ELSE UNCHANGED PDF_SCALE
    /\ pc' = "convert"
    /\ UNCHANGED <<variant, env, doc, images, floor_plan_image, trim_box, trim_failed, tile_size,
                   max_zoom, min_zoom, todo, pyramid, metadata, tilerVars, annVars, jobVars, reqVars>>

\* pdf_to_images; no image is fatal; the first page is kept
ConvertPdf ==
    /\ pc = "convert"
    /\ LET imgs == pdf_to_images(variant, doc, PDF_SCALE, env.MAX_DIMENSION)
       IN  IF Len(imgs) = 0
           THEN /\ pc' = "failed"
                /\ images' = imgs
                /\ UNCHANGED floor_plan_image
           ELSE /\ pc' = "trim"
                /\ images' = <<imgs[1]>>
                /\ floor_plan_image' = imgs[1]
    /\ UNCHANGED <<variant, env, doc, PDF_SCALE, trim_box, trim_failed, tile_size, max_zoom,
                   min_zoom, todo, pyramid, metadata, tilerVars, annVars, jobVars, reqVars>>

\* floor_plan_image = trim_whitespace(floor_plan_image, ..., padding=20)
TrimStep ==
    /\ pc = "trim"
    /\ \E raised \in BOOLEAN :
        LET r == trim_whitespace_guarded(floor_plan_image, TrimPadding, raised)
        IN  /\ floor_plan_image' = r.image
            /\ trim_box' = r.box
            /\ trim_failed' = raised
    /\ pc' = "plan"
    /\ UNCHANGED <<variant, env, doc, PDF_SCALE, images, tile_size, max_zoom,
                   min_zoom, todo, pyramid, metadata, tilerVars, annVars, jobVars, reqVars>>

\* the zoom plan; tile_image starts with the levels sorted high to low
PlanZoom ==
    /\ pc = "plan"
    /\ LET mz == PlanMaxZoom(variant, floor_plan_image, tile_size,
                             env.FORCED_MAX_Z, env.ZOOM_BOOST)
           lo == PlanMinZoom(env.MIN_ZOOM, mz)
       IN  /\ max_zoom' = mz
           /\ min_zoom' = lo
           /\ todo' = Descending(lo, mz)
    /\ pyramid' = NoFunc
    /\ scaled_img' = NoRaster
    /\ live' = {SourceRaster}
    /\ pc' = "tile"
    /\ UNCHANGED <<variant, env, doc, PDF_SCALE, images, floor_plan_image, trim_box, trim_failed,
                   tile_size, metadata, annVars, jobVars, reqVars>>

\* one iteration of the loop of tile_image, first half: the raster of the
\* next level is the source image at max_zoom, a resample of it below
ResampleLevel ==
    /\ pc = "tile"
    /\ todo # <<>>
    /\ scaled_img = NoRaster
    /\ LET zoom == Head(todo)
           r    == GenerateZoomLevel(tile_size, floor_plan_image.w, floor_plan_image.h,
                                     zoom, max_zoom)
       IN  IF r.raised
           THEN /\ pc' = "failed"
                /\ UNCHANGED <<scaled_img, live>>
           ELSE /\ scaled_img' = ScaledImg(zoom, max_zoom)
                /\ live' = live \cup {ScaledImg(zoom, max_zoom)}
                /\ pc' = "tile"
    /\ UNCHANGED <<variant, env, doc, PDF_SCALE, images, floor_plan_image, trim_box, trim_failed,
                   tile_size, max_zoom, min_zoom, todo, pyramid, metadata, annVars, jobVars, reqVars>>

\* second half: the raster is sliced into the tiles of the level and
\* closed unless it is the source image
GenerateLevel ==
    /\ pc = "tile"
    /\ todo # <<>>
    /\ scaled_img # NoRaster
    /\ LET zoom == Head(todo)
           r    == GenerateZoomLevel(tile_size, floor_plan_image.w, floor_plan_image.h,
                                     zoom, max_zoom)
       IN  /\ pyramid' = (zoom :> r.tiles) @@ pyramid
           /\ todo' = Tail(todo)
           /\ live' = IF ReleasesScaled(zoom, max_zoom) THEN live \ {scaled_img} ELSE live
           /\ scaled_img' = NoRaster
           /\ pc' = IF Tail(todo) = <<>> THEN "meta" ELSE "tile"
    /\ UNCHANGED <<variant, env, doc, PDF_SCALE, images, floor_plan_image, trim_box, trim_failed,
                   tile_size, max_zoom, min_zoom, metadata, annVars, jobVars, reqVars>>

\* preview, then create_metadata with total_tiles and quality_settings
ComposeMetadata ==
    /\ pc = "meta"
    /\ IF PreviewSize(floor_plan_image, 800)[2] < 1
       THEN /\ pc' = "failed"
            /\ UNCHANGED metadata
       ELSE /\ metadata' = CreateMetadata(floor_plan_image, max_zoom, tile_size, min_zoom,
                                          ZoomRange(min_zoom, max_zoom), TotalTiles(pyramid),
                                          PDF_SCALE, env.MAX_DIMENSION)
            /\ pc' = "done"
    /\ UNCHANGED <<variant, env, doc, PDF_SCALE, images, floor_plan_image, trim_box, trim_failed,
                   tile_size, max_zoom, min_zoom, todo, pyramid, tilerVars, annVars, jobVars, reqVars>>

\* annotate_pdf: the trim offset is detected from the original first page
DetectTrimOffset ==
    /\ pc = "done"
    /\ trim_offset' = detect_trim_offset(doc[1], metadata)
    /\ detect_pass' = DetectPass(doc[1], metadata)
    /\ pc' = "annotate"
    /\ UNCHANGED <<variant, env, doc, PDF_SCALE, images, floor_plan_image, trim_box, trim_failed,
                   tile_size, max_zoom, min_zoom, todo, pyramid, metadata,
                   pixel, leaflet_coords, pdf_coords, tilerVars, jobVars, reqVars>>

\* A request names a viewer point directly ...
PlaceMarker ==
    /\ pc = "annotate"
    /\ \E v \in ViewerPoints :
        /\ leaflet_coords' = v
        /\ pixel' = <<>>
    /\ pc' = "placed"
    /\ UNCHANGED <<variant, env, doc, PDF_SCALE, images, floor_plan_image, trim_box, trim_failed,
                   tile_size, max_zoom, min_zoom, todo, pyramid, metadata,
                   trim_offset, detect_pass, pdf_coords, tilerVars, jobVars, reqVars>>

\* ... or the viewer maps the pixel of the tiled image the user points at.
PlaceAtPixel ==
    /\ pc = "annotate"
    /\ \E p \in PixelPoints :
        /\ leaflet_coords' = pixelToViewer(p[1], p[2], metadata.max_zoom)
        /\ pixel' = p
    /\ pc' = "placed"
    /\ UNCHANGED <<variant, env, doc, PDF_SCALE, images, floor_plan_image, trim_box, trim_failed,
                   tile_size, max_zoom, min_zoom, todo, pyramid, metadata,
                   trim_offset, detect_pass, pdf_coords, tilerVars, jobVars, reqVars>>

\* draw_marker_on_pdf: the point is mapped back to the page
DrawMarker ==
    /\ pc = "placed"
    /\ pdf_coords' = transform_coords(leaflet_coords, metadata, trim_offset)
    /\ pc' = "drawn"
    /\ UNCHANGED <<variant, env, doc, PDF_SCALE, images, floor_plan_image, trim_box, trim_failed,
                   tile_size, max_zoom, min_zoom, todo, pyramid, metadata,
                   trim_offset, detect_pass, pixel, leaflet_coords, tilerVars, jobVars, reqVars>>

(* ---------------------------------------------------------------------- *)
(* Jobs (app.py): submission, background processing, upload                *)
(* ---------------------------------------------------------------------- *)
FileIds == {1, 2, 3}

\* what the file_url of a request resolves to: file 1 is a one-page plan,
\* file 2 a PDF without pages, file 3 a strip one point high, whose raster
\* (30000 x 1 after the max_dimension cap) has no row left at zoom 0
FileDoc(f) ==
    IF f = 1 THEN <<Page(60, 40, <<7, 4, 50, 30>>)>>
    ELSE IF f = 2 THEN <<>>
    ELSE <<Page(20000, 1, NoBox)>>

JobEnv == EnvRec(RInt(10), 30000, 1, 4, 512, 0)

\* tiles/{z}/{x}/{y}.png of the levels zooms[1], zooms[2], ... in the
\* order pyramid.items() yields them
RECURSIVE TileBlobs(_, _)
TileBlobs(pyr, zooms) ==
    IF zooms = <<>> THEN <<>>
    ELSE [i \in DOMAIN pyr[Head(zooms)] |->
            <<"tile", Head(zooms), pyr[Head(zooms)][i].x, pyr[Head(zooms)][i].y>>]
         \o TileBlobs(pyr, Tail(zooms))

\* upload_tiles_to_blob: the blobs in the order they are written
UploadOrder(pyr, zooms) == <<<<"metadata.json">>, <<"preview.jpg">>>> \o TileBlobs(pyr, zooms)

\* an error handler that goes on to the upload with what there is
RunContinued(progress) ==
    [ok |-> TRUE, progress |-> progress, uploads |-> <<<<"metadata.json">>>>]

\* an exception leaves process_floorplan_sync: nothing is handed to the
\* upload
RunRaised(progress) == [ok |-> FALSE, progress |-> progress, uploads |-> <<>>]

\* process_floorplan_sync between the existence check and the upload:
\* scale selection, conversion, trim, zoom plan, tiling, preview; progress
\* is the last progress reported before the upload or the exception
TileFloorplan(pages, e, has_images, is_complex_plan, trim_raised) ==
    LET ts    == ValidTileSize(e.TILE_SIZE)
        scale == IF Len(pages) > 0
                 THEN SmartScale(pages[1], e.PDF_SCALE, has_images, is_complex_plan)
                 ELSE e.PDF_SCALE
        imgs  == pdf_to_images("app", pages, scale, e.MAX_DIMENSION)
    IN  IF Len(imgs) = 0
        THEN RunRaised(15)
        ELSE LET img == trim_whitespace_guarded(imgs[1], TrimPadding, trim_raised).image
                 mz  == PlanMaxZoomApp(img, ts, e.FORCED_MAX_Z, e.ZOOM_BOOST)
                 lo  == PlanMinZoom(e.MIN_ZOOM, mz)
                 pyr == [z \in lo..mz |-> GenerateZoomLevel(ts, img.w, img.h, z, mz)]
             IN  IF \E z \in lo..mz : pyr[z].raised
                 THEN RunRaised(30)
                 ELSE IF PreviewSize(img, 800)[2] < 1
                 THEN RunRaised(60)
                 ELSE [ok |-> TRUE, progress |-> 60,
                       uploads |-> UploadOrder([z \in lo..mz |-> pyr[z].tiles],
                                               Descending(lo, mz))]

Blob(f, name) == [file |-> f, name |-> name]

\* list_blobs(name_starts_with = "floorplans/{file_id}/")
BlobsOf(f) == {b \in blobs : b.file = f}

\* a completion block that writes the status and nothing else
SetJobStatusOnly(j, status, progress, message, result) ==
    [jobs_store EXCEPT ![j].status = status]

SetJob(j, status, progress, message, result) ==
    [jobs_store EXCEPT ![j] = [status |-> status, progress |-> progress,
                               message |-> message, result |-> result]]

\* an except branch that logs the error and leaves the status as it is
FailJobLogged(j, message) == [jobs_store EXCEPT ![j].message = message]

\* an except branch that puts the job back in the queue
FailJobRequeued(j, message) ==
    [jobs_store EXCEPT ![j].status = "queued", ![j].message = message]

\* the except branch of process_floorplan_background
FailJob(j, message) ==
    [jobs_store EXCEPT ![j].status = "failed", ![j].message = message]

\* POST /api/process-floorplan
SubmitJob ==
    /\ Cardinality(DOMAIN jobs_store) < MaxJobs
    /\ \E f \in FileIds :
        LET j == Cardinality(DOMAIN jobs_store) + 1
        IN  /\ jobs_store' = (j :> [status |-> "queued", progress |-> 0,
                                    message |-> "Job queued for processing",
                                    result |-> None]) @@ jobs_store
            /\ task' = (j :> [pc |-> "queued", file_id |-> f, queue |-> <<>>, sent |-> 0])
                       @@ task
    /\ UNCHANGED <<runVars, tilerVars, annVars, reqVars, blobs>>

\* process_floorplan_background starts
StartJob(j) ==
    /\ j \in DOMAIN task
    /\ task[j].pc = "queued"
    /\ jobs_store' = [jobs_store EXCEPT ![j].status = "processing"]
    /\ task' = [task EXCEPT ![j].pc = "download"]
    /\ UNCHANGED <<runVars, tilerVars, annVars, reqVars, blobs>>

\* the download of the PDF, which may fail
Download(j) ==
    /\ j \in DOMAIN task
    /\ task[j].pc = "download"
    /\ \/ /\ jobs_store' = [jobs_store EXCEPT ![j].progress = 10,
                                              ![j].message = "PDF downloaded"]
          /\ task' = [task EXCEPT ![j].pc = "check"]
       \/ /\ jobs_store' = [jobs_store EXCEPT ![j].progress = 5,
                                              ![j].status = "failed",
                                              ![j].message = "Failed to download file"]
          /\ task' = [task EXCEPT ![j].pc = "done"]
    /\ UNCHANGED <<runVars, tilerVars, annVars, reqVars, blobs>>

\* "Check if floorplan already exists": any blob under the prefix of the
\* file_id ends the run with a success result
CheckExisting(j) ==
    /\ j \in DOMAIN task
    /\ task[j].pc = "check"
    /\ IF BlobsOf(task[j].file_id) # {}
       THEN /\ jobs_store' = SetJob(j, "completed", 100,
                                    "Processing completed successfully", "exists")
            /\ task' = [task EXCEPT ![j].pc = "done"]
       ELSE /\ task' = [task EXCEPT ![j].pc = "process"]
            /\ UNCHANGED jobs_store
    /\ UNCHANGED <<runVars, tilerVars, annVars, reqVars, blobs>>

\* what process_floorplan_sync can come to for each file, whatever the
\* page holds (embedded images, file size) and whether the trim raises:
\* pairs <<file_id, outcome>>
RunOutcomes ==
    { << f, TileFloorplan(FileDoc(f), JobEnv, has_images, is_complex_plan, trim_raised) >> :
        f \in FileIds,
        has_images \in BOOLEAN, is_complex_plan \in BOOLEAN, trim_raised \in BOOLEAN }

\* conversion, trim, tiling, preview and metadata of the run
ProcessPdf(j) ==
    /\ j \in DOMAIN task
    /\ task[j].pc = "process"
    /\ \E o \in RunOutcomes :
        /\ o[1] = task[j].file_id
        /\ LET r == o[2]
           IN  IF r.ok
               THEN /\ jobs_store' = [jobs_store EXCEPT ![j].progress = r.progress,
                                                        ![j].message = "Generated tiles"]
                    /\ task' = [task EXCEPT ![j].pc = "upload", ![j].queue = r.uploads]
               ELSE /\ jobs_store' = [jobs_store EXCEPT ![j].progress = r.progress,
                                                        ![j].status = "failed",
                                                        ![j].message = "Unexpected error"]
                    /\ task' = [task EXCEPT ![j].pc = "done"]
    /\ UNCHANGED <<runVars, tilerVars, annVars, reqVars, blobs>>

\* one upload_blob of upload_tiles_to_blob; a storage error ends the run
\* and leaves what was written
UploadBlob(j) ==
    /\ j \in DOMAIN task
    /\ task[j].pc = "upload"
    /\ task[j].queue # <<>>
    /\ \/ /\ blobs' = blobs \cup {Blob(task[j].file_id, Head(task[j].queue))}
          /\ task' = [task EXCEPT ![j].queue = Tail(@), ![j].sent = @ + 1]
          /\ UNCHANGED jobs_store
       \/ /\ jobs_store' = FailJob(j, "Unexpected error")
          /\ task' = [task EXCEPT ![j].pc = "done"]
          /\ UNCHANGED blobs
    /\ UNCHANGED <<runVars, tilerVars, annVars, reqVars>>

\* after the last tile: the PDF is archived (a failure is only logged)
\* and the result returned
FinishJob(j) ==
    /\ j \in DOMAIN task
    /\ task[j].pc = "upload"
    /\ task[j].queue = <<>>
    /\ \E archived \in BOOLEAN :
        blobs' = IF archived THEN blobs \cup {Blob(task[j].file_id, <<"pdf">>)} ELSE blobs
    /\ jobs_store' = SetJob(j, "completed", 100, "Processing completed successfully", "created")
    /\ task' = [task EXCEPT ![j].pc = "done"]
    /\ UNCHANGED <<runVars, tilerVars, annVars, reqVars>>

(* ---------------------------------------------------------------------- *)
(* delete_floorplan and mass_delete_floorplan                              *)
(* ---------------------------------------------------------------------- *)
\* blobs_to_delete: the names list_blobs(name_starts_with = prefix) yields
RECURSIVE BlobList(_)
BlobList(S) ==
    IF S = {} THEN <<>>
    ELSE LET b == CHOOSE b \in S : TRUE IN <<b>> \o BlobList(S \ {b})

\* a deletion loop that stops at the first delete_blob that raises
RECURSIVE DeleteBlobsUntilFailure(_, _)
DeleteBlobsUntilFailure(blobs_to_delete, fails) ==
    IF blobs_to_delete = <<>>
    THEN [deleted |-> {}, failed_deletions |-> {}]
    ELSE LET blob_name == Head(blobs_to_delete)
         IN  IF blob_name \in fails
             THEN [deleted |-> {}, failed_deletions |-> {blob_name}]
             ELSE LET rest == DeleteBlobsUntilFailure(Tail(blobs_to_delete), fails)
                  IN  [deleted |-> rest.deleted \cup {blob_name},
                       failed_deletions |-> rest.failed_deletions]

\* "for blob_name in blobs_to_delete": delete_blob in a try of its own;
\* fails are the blobs whose delete_blob raises
RECURSIVE DeleteBlobs(_, _)
DeleteBlobs(blobs_to_delete, fails) ==
    IF blobs_to_delete = <<>>
    THEN [deleted |-> {}, failed_deletions |-> {}]
    ELSE LET blob_name == Head(blobs_to_delete)
             rest      == DeleteBlobs(Tail(blobs_to_delete), fails)
         IN  IF blob_name \in fails
             THEN [deleted |-> rest.deleted,
                   failed_deletions |-> rest.failed_deletions \cup {blob_name}]
             ELSE [deleted |-> rest.deleted \cup {blob_name},
                   failed_deletions |-> rest.failed_deletions]

\* the deletion of the blobs of one file_id out of those in store: what was
\* listed, deleted and refused, and the report of it
DeleteItem(file_id, store, fails) ==
    LET listed          == {b \in store : b.file = file_id}
        blobs_to_delete == BlobList(listed)
        d               == DeleteBlobs(blobs_to_delete, fails)
    IN  [file_id |-> file_id, listing_raised |-> FALSE, listed |-> listed,
         deleted |-> d.deleted, failed |-> d.failed_deletions,
         report |->
            IF blobs_to_delete = <<>>
            THEN [success |-> TRUE, file_id |-> file_id, deleted_count |-> 0]
            ELSE IF d.failed_deletions # {}
            THEN [success |-> FALSE, file_id |-> file_id,
                  deleted_count |-> Cardinality(d.deleted),
                  failed_count |-> Cardinality(d.failed_deletions)]
            ELSE [success |-> TRUE, file_id |-> file_id,
                  deleted_count |-> Cardinality(d.deleted)]]

\* list_blobs raised: delete_floorplan answers 500, mass_delete_floorplan
\* reports the item as failed ("except Exception as item_err")
ItemError(file_id, report) ==
    [file_id |-> file_id, listing_raised |-> TRUE, listed |-> {},
     deleted |-> {}, failed |-> {}, report |-> report]

\* "for file_id in request.file_ids" from item i on; raised are the
\* positions whose listing raises
RECURSIVE MassDeleteItems(_, _, _, _, _)
MassDeleteItems(file_ids, store, fails, raised, i) ==
    IF i > Len(file_ids) THEN <<>>
    ELSE LET it == IF i \in raised
                   THEN ItemError(file_ids[i],
                                  [success |-> FALSE, file_id |-> file_ids[i],
                                   deleted_count |-> 0])
                   ELSE DeleteItem(file_ids[i], store, fails)
         IN  <<it>> \o MassDeleteItems(file_ids, store \ it.deleted, fails, raised, i + 1)

\* total_deleted: one more for every delete_blob that returned
RECURSIVE TotalDeleted(_, _)
TotalDeleted(items, i) ==
    IF i > Len(items) THEN 0
    ELSE Cardinality(items[i].deleted) + TotalDeleted(items, i + 1)

\* the summary mass_delete_floorplan returns
MassResponse(items) ==
    LET results          == [i \in 1..Len(items) |-> items[i].report]
        successful_items == Cardinality({i \in 1..Len(results) : results[i].success})
        failed_items     == Len(results) - successful_items
    IN  [success |-> failed_items = 0,
         total_items |-> Len(results),
         successful_items |-> successful_items,
         failed_items |-> failed_items,
         total_blobs_deleted |-> TotalDeleted(items, 1),
         results |-> results]

\* the blobs the delete_blob calls of a request removed
RECURSIVE AllDeleted(_, _)
AllDeleted(items, i) ==
    IF i > Len(items) THEN {} ELSE items[i].deleted \cup AllDeleted(items, i + 1)

\* DELETE /api/delete-floorplan/{file_id}
DeleteFloorplan ==
    /\ Len(delete_log) < MaxDeletes
    /\ \E file_id \in FileIds, listing_raised \in BOOLEAN :
        \E fails \in SUBSET BlobsOf(file_id) :
            LET it == IF listing_raised
                      THEN ItemError(file_id, [status_code |-> 500])
                      ELSE DeleteItem(file_id, blobs, fails)
            IN  /\ blobs' = blobs \ it.deleted
                /\ delete_log' = Append(delete_log,
                                        [endpoint |-> "delete_floorplan",
                                         items |-> <<it>>,
                                         response |-> it.report])
    /\ UNCHANGED <<runVars, tilerVars, annVars, jobs_store, task, annotation_served>>

\* DELETE /api/mass-delete-floorplan
MassDeleteFloorplan ==
    /\ Len(delete_log) < MaxDeletes
    /\ \E n \in 1..MaxMassItems :
        \E file_ids \in [1..n -> FileIds], raised \in SUBSET (1..n), fails \in SUBSET blobs :
            LET items == MassDeleteItems(file_ids, blobs, fails, raised, 1)
            IN  /\ blobs' = blobs \ AllDeleted(items, 1)
                /\ delete_log' = Append(delete_log,
                                        [endpoint |-> "mass_delete_floorplan",
                                         items |-> items,
                                         response |-> MassResponse(items)])
    /\ UNCHANGED <<runVars, tilerVars, annVars, jobs_store, task, annotation_served>>

(* ---------------------------------------------------------------------- *)
(* annotate_pdf and the annotate-pdf endpoint                              *)
(* ---------------------------------------------------------------------- *)
\* A request object: properties.type, geometry.type, and whether drawing
\* it raises (coordinates that cannot be read, a drawing error of fitz)
ObjectTypes == {"rectangle", "square", "marker", "circle"}

GeometryTypes == {"Polygon", "Point", "LineString"}

RequestObjects ==
    [obj_type : ObjectTypes, geo_type : GeometryTypes, raises : BOOLEAN]

\* the branch of the loop an object takes
DrawnAs(obj) ==
    IF obj.obj_type = "rectangle" \/ obj.obj_type = "square" \/ obj.geo_type = "Polygon"
    THEN "polygon"
    ELSE IF obj.obj_type = "marker" \/ obj.geo_type = "Point"
    THEN "marker"
    ELSE "unknown"

\* "for i, obj in enumerate(objects)" from object i on: the shapes that
\* end up on the page, one for each objects_drawn += 1
RECURSIVE DrawObjects(_, _)
DrawObjects(objects, i) ==
    IF i > Len(objects) THEN <<>>
    ELSE IF DrawnAs(objects[i]) = "unknown" \/ objects[i].raises
    THEN DrawObjects(objects, i + 1)
    ELSE << <<i, DrawnAs(objects[i])>> >> \o DrawObjects(objects, i + 1)

\* annotate_pdf: the page with its shapes, and the local counter
annotate_pdf(objects) ==
    LET drawn == DrawObjects(objects, 1)
    IN  [drawn |-> drawn, objects_drawn |-> Len(drawn)]

\* the 200 response of the endpoint
AnnotateResponse(objects) ==
    [success |-> TRUE, objects_drawn |-> Len(objects)]

\* POST annotate-pdf with metadata and PDF that download, and an upload
\* that goes through
AnnotatePdf ==
    /\ Len(annotation_served) < MaxAnnotations
    /\ \E n \in 0..MaxObjects :
        \E objects \in [1..n -> RequestObjects] :
            annotation_served' = Append(annotation_served,
                                        [objects |-> objects,
                                         page |-> annotate_pdf(objects),
                                         response |-> AnnotateResponse(objects)])
    /\ UNCHANGED <<runVars, tilerVars, annVars, jobVars, delete_log>>

\* the state of a fresh process, the store left aside
InitProcess ==
    /\ variant = None
    /\ pc = "start"
    /\ env = None
    /\ doc = <<>>
    /\ PDF_SCALE = None
    /\ images = <<>>
    /\ floor_plan_image = None
    /\ trim_box = NoBox
    /\ trim_failed = FALSE
    /\ scaled_img = NoRaster
    /\ live = {}
    /\ tile_size = None
    /\ max_zoom = None
    /\ min_zoom = None
    /\ todo = <<>>
    /\ pyramid = NoFunc
    /\ metadata = None
    /\ trim_offset = None
    /\ detect_pass = None
    /\ pixel = <<>>
    /\ leaflet_coords = None
    /\ pdf_coords = None
    /\ jobs_store = NoFunc
    /\ task = NoFunc
    /\ delete_log = <<>>
    /\ annotation_served = <<>>

Init ==
    /\ InitProcess
    /\ blobs = {}

\* blobs that runs of two file_ids have written: a tile and the archived PDF
StoredBlobs == {Blob(f, name) : f \in {1, 2}, name \in {<<"tile", 0, 0, 0>>, <<"pdf">>}}

\* a process started on a store that earlier processes have written to
InitDelete ==
    /\ InitProcess
    /\ blobs \in SUBSET StoredBlobs

\* End-to-end: a document is tiled, then its trim offset is detected.
Next ==
    \/ Configure
    \/ SmartScaling
    \/ ConvertPdf
    \/ TrimStep
    \/ PlanZoom
    \/ ResampleLevel
    \/ GenerateLevel
    \/ ComposeMetadata
    \/ DetectTrimOffset

Spec == Init /\ [][Next]_vars

\* Tiling: images of many sizes under many zoom configurations.
ConfigureTiling == ConfigureWith(TilingInputs, TilingFuncInputs)

NextTiling ==
    \/ ConfigureTiling
    \/ SmartScaling
    \/ ConvertPdf
    \/ TrimStep
    \/ PlanZoom
    \/ ResampleLevel
    \/ GenerateLevel
    \/ ComposeMetadata

SpecTiling == Init /\ [][NextTiling]_vars

\* Annotation: a tiled document is annotated with one marker.
ConfigureCoords == ConfigureWith(CoordInputs, CoordFuncInputs)

NextCoords ==
    \/ ConfigureCoords
    \/ SmartScaling
    \/ ConvertPdf
    \/ TrimStep
    \/ PlanZoom
    \/ ResampleLevel
    \/ GenerateLevel
    \/ ComposeMetadata
    \/ DetectTrimOffset
    \/ PlaceMarker
    \/ PlaceAtPixel
    \/ DrawMarker

SpecCoords == Init /\ [][NextCoords]_vars

\* Scale selection: large pages are scaled, rendered and tiled.
ConfigureScale == ConfigureWith(ScaleInputs, ScaleFuncInputs)

NextScale ==
    \/ ConfigureScale
    \/ SmartScaling
    \/ ConvertPdf
    \/ TrimStep
    \/ PlanZoom
    \/ ResampleLevel
    \/ GenerateLevel
    \/ ComposeMetadata

SpecScale == Init /\ [][NextScale]_vars

\* Jobs: requests are submitted and processed by concurrent background tasks.
NextJobs ==
    \/ SubmitJob
    \/ \E j \in 1..MaxJobs : StartJob(j)
    \/ \E j \in 1..MaxJobs : Download(j)
    \/ \E j \in 1..MaxJobs : CheckExisting(j)
    \/ \E j \in 1..MaxJobs : ProcessPdf(j)
    \/ \E j \in 1..MaxJobs : UploadBlob(j)
    \/ \E j \in 1..MaxJobs : FinishJob(j)

SpecJobs == Init /\ [][NextJobs]_vars

\* Deletions: delete requests served on a store that earlier runs filled.
NextDelete ==
    \/ DeleteFloorplan
    \/ MassDeleteFloorplan

SpecDelete == InitDelete /\ [][NextDelete]_vars

\* Annotation requests: annotate-pdf requests served one after the other.
NextAnnotate == AnnotatePdf

SpecAnnotate == Init /\ [][NextAnnotate]_vars

\* one step of the background task of job j; its position enables one
\* of them at a time
TaskStep(j) ==
    \/ StartJob(j)
    \/ Download(j)
    \/ CheckExisting(j)
    \/ ProcessPdf(j)
    \/ UploadBlob(j)
    \/ FinishJob(j)

\* Jobs whose background tasks are scheduled: a task that can take its
\* next step (the download, the check, the processing call, an upload
\* that succeeds or raises, the final write) eventually takes it.
JobsFairness == \A j \in 1..MaxJobs : WF_vars(TaskStep(j))

SpecJobsFair == Init /\ [][NextJobs]_vars /\ JobsFairness

(* ---------------------------------------------------------------------- *)
(* Properties                                                              *)
(* ---------------------------------------------------------------------- *)
Planned == pc \in {"tile", "meta", "done", "annotate", "placed", "drawn"}

\* the extent of the raster sliced at zoom z
ScaledW(z) == floor_plan_image.w \div Pow2(max_zoom - z)

ScaledH(z) == floor_plan_image.h \div Pow2(max_zoom - z)

\* C1: once the zoom plan is computed, 0 <= min_zoom <= max_zoom <= the
\* zoom limit of the service, and min_zoom is the requested minimum
\* clamped into [0, max_zoom].
C1_ZoomPlanInvariant ==
    Planned =>
        /\ 0 <= min_zoom
        /\ min_zoom <= max_zoom
        /\ max_zoom <= MaxZoomLimitOf(variant)
        /\ min_zoom = IF env.MIN_ZOOM < 0 THEN 0
                      ELSE IF env.MIN_ZOOM > max_zoom THEN max_zoom
                      ELSE env.MIN_ZOOM

\* C1 witness: a plan whose maximum was cut at the limit and whose
\* requested minimum was cut at that maximum.
C1_Witness ==
    /\ Planned
    /\ variant = "app"
    /\ tile_size \in SupportedTileSizes
    /\ env.FORCED_MAX_Z = 13
    /\ env.MIN_ZOOM = 20
    /\ max_zoom = MAX_ZOOM_LIMIT
    /\ min_zoom = MAX_ZOOM_LIMIT

\* C2 as stated: every generated level holds
\* ceil(width*2^(zoom-maxZoom)/tileSize) * ceil(height*2^(zoom-maxZoom)/tileSize)
\* tiles (the quotient is not truncated before the division by tileSize).
C2_ClaimedTileCount ==
    \A z \in DOMAIN pyramid :
        Len(pyramid[z]) =
            CeilDiv(floor_plan_image.w, tile_size * Pow2(max_zoom - z))
            * CeilDiv(floor_plan_image.h, tile_size * Pow2(max_zoom - z))

\* C2 amended: every generated level holds
\* ceil(floor(width*2^(zoom-maxZoom))/tileSize) * ceil(floor(height*2^(zoom-maxZoom))/tileSize)
\* tiles, a finished pyramid has every level of the plan, and the run fails
\* at the first level one of whose truncated sides is 0.
C2_TileCount ==
    /\ \A z \in DOMAIN pyramid :
        Len(pyramid[z]) =
            ((floor_plan_image.w \div Pow2(max_zoom - z) + tile_size - 1) \div tile_size)
            * ((floor_plan_image.h \div Pow2(max_zoom - z) + tile_size - 1) \div tile_size)
    /\ pc \in {"meta", "done"} => DOMAIN pyramid = min_zoom..max_zoom
    /\ (pc = "failed" /\ todo # <<>>) =>
            /\ Head(todo) < max_zoom
            /\ \/ floor_plan_image.w \div Pow2(max_zoom - Head(todo)) = 0
               \/ floor_plan_image.h \div Pow2(max_zoom - Head(todo)) = 0

\* C2 witness: a level whose width is truncated to a whole number of
\* tiles, so that one column less is produced than for the exact quotient.
C2_Witness ==
    /\ Planned
    /\ floor_plan_image.w = 257
    /\ tile_size = 128
    /\ (max_zoom - 1) \in DOMAIN pyramid
    /\ Len(pyramid[max_zoom - 1]) = CeilDiv(floor_plan_image.h \div 2, 128)
    /\ Len(pyramid[max_zoom - 1]) < 2 * CeilDiv(floor_plan_image.h \div 2, 128)

\* the content area of tiles[lo..hi], summed by halves
RECURSIVE ContentArea(_, _, _)
ContentArea(tiles, lo, hi) ==
    IF lo > hi THEN 0
    ELSE IF lo = hi THEN tiles[lo].img.cw * tiles[lo].img.ch
    ELSE LET mid == (lo + hi) \div 2
         IN  ContentArea(tiles, lo, mid) + ContentArea(tiles, mid + 1, hi)

\* C3: at every zoom level each grid cell appears exactly once, tile
\* (tx, ty) holds the pixels [tx*ts, min((tx+1)*ts, scaledW)) x
\* [ty*ts, min((ty+1)*ts, scaledH)) of the scaled raster, and the content
\* areas of the tiles add up to scaledW * scaledH.
C3_TilesPartitionRaster ==
    \A z \in DOMAIN pyramid :
        LET tiles == pyramid[z]
            nx    == CeilDiv(ScaledW(z), tile_size)
            ny    == CeilDiv(ScaledH(z), tile_size)
        IN  /\ { <<tiles[i].x, tiles[i].y>> : i \in DOMAIN tiles } = (0..(nx - 1)) \X (0..(ny - 1))
            /\ Len(tiles) = nx * ny
            /\ \A i \in DOMAIN tiles :
                LET t == tiles[i]
                IN  /\ t.img.src = << t.x * tile_size, t.y * tile_size,
                                      Min((t.x + 1) * tile_size, ScaledW(z)),
                                      Min((t.y + 1) * tile_size, ScaledH(z)) >>
                    /\ t.img.cw = t.img.src[3] - t.img.src[1]
                    /\ t.img.ch = t.img.src[4] - t.img.src[2]
            /\ ContentArea(tiles, 1, Len(tiles)) = ScaledW(z) * ScaledH(z)

\* C3 witness: a downscaled level of several columns and rows whose last
\* column and row are partial.
C3_Witness ==
    \E z \in DOMAIN pyramid :
        /\ z < max_zoom
        /\ CeilDiv(ScaledW(z), tile_size) >= 3
        /\ CeilDiv(ScaledH(z), tile_size) >= 2
        /\ ScaledW(z) % tile_size # 0
        /\ ScaledH(z) % tile_size # 0
        /\ Len(pyramid[z]) >= 6

\* C4: every tile is tile_size x tile_size; content narrower or shorter
\* than tile_size sits unscaled at (0, 0) and the rest of the tile has
\* alpha 0.
C4_TileShape ==
    \A z \in DOMAIN pyramid :
        \A i \in DOMAIN pyramid[z] :
            LET img == pyramid[z][i].img
            IN  /\ img.w = tile_size
                /\ img.h = tile_size
                /\ (img.cw < tile_size \/ img.ch < tile_size) =>
                        /\ img.at = <<0, 0>>
                        /\ img.cw = img.src[3] - img.src[1]
                        /\ img.ch = img.src[4] - img.src[2]
                        /\ img.pad_alpha = 0

\* C4 witness: the 1000 x 1000 image at zoom 0 of 0..2 with 256-pixel
\* tiles: one tile, 250 x 250 of content, padded on both axes.
C4_Witness ==
    /\ Planned
    /\ floor_plan_image.w = 1000
    /\ floor_plan_image.h = 1000
    /\ tile_size = 256
    /\ max_zoom = 2
    /\ 0 \in DOMAIN pyramid
    /\ Len(pyramid[0]) = 1
    /\ pyramid[0][1].img.cw = 250
    /\ pyramid[0][1].img.ch = 250
    /\ pyramid[0][1].img.w = 256

AutoDerived == Planned /\ variant = "app" /\ env.FORCED_MAX_Z = -1

\* C5 as stated: an auto-derived max_zoom uses the reduced boost whenever
\* the shorter side at zoom 0 would fall under half a tile.
C5_ClaimedBoostReduction ==
    AutoDerived =>
        max_zoom = PlanMaxZoomReduced(floor_plan_image, tile_size, -1, env.ZOOM_BOOST)

\* C5 amended: an auto-derived max_zoom is always baseZoom + ZOOM_BOOST
\* clamped into [0, 12], where baseZoom is the least integer k with
\* max(width, height) <= tile_size * 2^k; the boost is never reduced.
C5_FullBoost ==
    AutoDerived =>
        \E k \in -12..12 :
            /\ LeScaled(Max(floor_plan_image.w, floor_plan_image.h), tile_size, k)
            /\ ~LeScaled(Max(floor_plan_image.w, floor_plan_image.h), tile_size, k - 1)
            /\ max_zoom = IF k + env.ZOOM_BOOST < 0 THEN 0
                          ELSE IF k + env.ZOOM_BOOST > 12 THEN 12
                          ELSE k + env.ZOOM_BOOST

\* C5 witness: 4096 x 2048, 512-pixel tiles, boost 2: baseZoom 3 and
\* max_zoom 5, although 2048 / 2^5 = 64 < 256.
C5_Witness ==
    /\ AutoDerived
    /\ floor_plan_image.w = 4096
    /\ floor_plan_image.h = 2048
    /\ tile_size = 512
    /\ env.ZOOM_BOOST = 2
    /\ max_zoom = 5
    /\ PlanMaxZoomReduced(floor_plan_image, tile_size, -1, env.ZOOM_BOOST) = 3

\* a run for file f failed after it had written some, not all, of its blobs,
\* and nobody is writing blobs of f
PartialLeftover(f) ==
    /\ BlobsOf(f) # {}
    /\ \E k \in DOMAIN task :
        /\ task[k].file_id = f
        /\ jobs_store[k].status = "failed"
        /\ task[k].sent > 0
        /\ \E i \in DOMAIN task[k].queue : Blob(f, task[k].queue[i]) \notin blobs
    /\ \A k \in DOMAIN task : task[k].file_id = f => task[k].pc # "upload"

\* C6 as stated: the existence check of a request never reports the
\* floorplan as existing when what is stored for its file_id is the
\* leftover of a failed upload.
C6_PartialNeverValid ==
    [][\A j \in DOMAIN task :
          (task[j].pc = "check" /\ jobs_store'[j].result = "exists")
              => ~PartialLeftover(task[j].file_id)]_vars

\* C7 as stated: every raster pdf_to_images produced is at most
\* max_dimension wide and high.
C7_RasterWithinMaxDimension ==
    \A i \in DOMAIN images :
        /\ images[i].w <= env.MAX_DIMENSION
        /\ images[i].h <= env.MAX_DIMENSION

\* C8 as stated: the detected trim offset is the (left, top) that
\* trim_whitespace cropped in the tiling run, (0, 0) when it did not crop.
C8_DetectedOffsetIsActualCrop ==
    pc = "annotate" =>
        trim_offset = IF trim_box = NoBox THEN <<RInt(0), RInt(0)>>
                      ELSE <<RInt(trim_box[1]), RInt(trim_box[2])>>

\* the request of the example: pdf_scale 10, max_zoom 8, offset (50, 20),
\* viewer point (3.2, -1.5)
C9_ExampleCase ==
    /\ pc = "drawn"
    /\ metadata.pdf_scale = RInt(10)
    /\ metadata.max_zoom = 8
    /\ trim_offset = <<RInt(50), RInt(20)>>
    /\ leaflet_coords = <<Rat(32, 10), Rat(-15, 10)>>

\* pdf_coords * pdf_scale = (vx * 2^max_zoom + left, -vy * 2^max_zoom + top)
C9_Formula ==
    /\ RMul(pdf_coords[1], metadata.pdf_scale)
         = RAdd(RMul(leaflet_coords[1], RInt(Pow2(metadata.max_zoom))), trim_offset[1])
    /\ RMul(pdf_coords[2], metadata.pdf_scale)
         = RAdd(RMul(RNeg(leaflet_coords[2]), RInt(Pow2(metadata.max_zoom))), trim_offset[2])

\* C9 as stated: the formula, and the example maps to (86.72, 40.4).
C9_ClaimedExample ==
    pc = "drawn" =>
        /\ C9_Formula
        /\ C9_ExampleCase => pdf_coords = <<Rat(8672, 100), Rat(404, 10)>>

\* C9 amended: transform_coords maps (vx, vy) to
\* ((vx * 2^max_zoom + left) / pdf_scale, (-vy * 2^max_zoom + top) / pdf_scale)
\* whatever the tile size; the example maps to (86.92, 40.4).
C9_TransformCoords ==
    pc = "drawn" =>
        /\ C9_Formula
        /\ C9_ExampleCase => pdf_coords = <<Rat(8692, 100), Rat(404, 10)>>

\* C9 witness: the example, drawn on a pyramid of 512-pixel tiles.
C9_Witness ==
    /\ C9_ExampleCase
    /\ metadata.tile_size = 512
    /\ pdf_coords = <<Rat(8692, 100), Rat(404, 10)>>

\* a marker placed at an image pixel of a run that detected no trim
RoundTripCase ==
    /\ pc = "drawn"
    /\ pixel # <<>>
    /\ trim_offset = <<RInt(0), RInt(0)>>

\* C10 as stated: with trim offset (0, 0) the reverse mapping of the
\* forward mapping of a pixel is that pixel, at any render scale.
C10_ClaimedRoundTrip ==
    RoundTripCase => pdf_coords = pixel

\* C10 amended: with trim offset (0, 0) the reverse mapping of the forward
\* mapping of pixel (px, py) is (px / pdf_scale, py / pdf_scale), the page
\* point of the pixel; it is (px, py) when pdf_scale is 1.
C10_RoundTrip ==
    RoundTripCase =>
        /\ pdf_coords = <<RDiv(pixel[1], metadata.pdf_scale), RDiv(pixel[2], metadata.pdf_scale)>>
        /\ metadata.pdf_scale = RInt(1) => pdf_coords = pixel

\* C10 witness: pixel (257, 3) of a raster rendered at scale 10 comes back
\* as (25.7, 0.3).
C10_Witness ==
    /\ RoundTripCase
    /\ pixel = <<RInt(257), RInt(3)>>
    /\ metadata.pdf_scale = RInt(10)
    /\ metadata.max_zoom = 3
    /\ pdf_coords = <<Rat(257, 10), Rat(3, 10)>>

\* C11: detect_trim_offset skips the detection pass and returns (0, 0)
\* exactly when the page size times the persisted scale is within 1 pixel
\* of the persisted image size on both axes; in every other case it
\* renders the page and looks for the foreground.
C11_DetectionSkippedIffSizesMatch ==
    pc = "annotate" =>
        LET dw == RSub(RMul(RInt(doc[1].w), metadata.pdf_scale), RInt(metadata.source_image.width))
            dh == RSub(RMul(RInt(doc[1].h), metadata.pdf_scale), RInt(metadata.source_image.height))
            within(d) == -d.d <= d.n /\ d.n <= d.d
        IN  /\ (within(dw) /\ within(dh)) <=> detect_pass = "skipped"
            /\ detect_pass = "skipped" => trim_offset = <<RInt(0), RInt(0)>>
            /\ detect_pass \in {"skipped", "no_bbox", "bbox"}

\* C11 witness: the widths match and the heights do not, and the
\* detection pass runs.
C11_Witness ==
    /\ pc = "annotate"
    /\ RMul(RInt(doc[1].w), metadata.pdf_scale) = RInt(metadata.source_image.width)
    /\ metadata.source_image.height < doc[1].h * 3 - 1
    /\ metadata.pdf_scale = RInt(3)
    /\ detect_pass = "bbox"

\* C15: a detection pass that finds no foreground pixel ends with the
\* offset (0, 0) and annotation goes on.
C15_NoForegroundGivesZero ==
    /\ pc \in {"annotate", "placed", "drawn"} /\ detect_pass = "no_bbox"
         => trim_offset = <<RInt(0), RInt(0)>>
    /\ pc = "annotate" =>
         (detect_pass = "no_bbox" <=> (~SizesMatch(doc[1], metadata) /\ doc[1].content = NoBox))

\* C15 witness: a blank page whose persisted size does not match, so the
\* pass ran and found nothing.
C15_Witness ==
    /\ pc = "annotate"
    /\ doc[1].content = NoBox
    /\ detect_pass = "no_bbox"
    /\ trim_offset = <<RInt(0), RInt(0)>>

Trimmed == pc \in {"plan", "tile", "meta", "done", "annotate", "placed", "drawn"}

\* C12: an image without a pixel that differs from the background by more
\* than the tolerance comes back from trim_whitespace as it went in.
C12_BlankImageUnchanged ==
    (Trimmed /\ images[1].fg = NoBox) =>
        /\ floor_plan_image = images[1]
        /\ trim_box = NoBox

\* C12 witness: a blank raster went through a trim that did not raise.
C12_Witness ==
    /\ Trimmed
    /\ ~trim_failed
    /\ images[1].fg = NoBox
    /\ floor_plan_image.w = images[1].w
    /\ floor_plan_image.h = images[1].h

\* C13: when the content box grown by the padding and clamped to the image
\* is the whole image (in particular when the content spans the image),
\* trim_whitespace returns its input; so trimming the result of a trim
\* again changes nothing.
C13_FullBoxUnchanged ==
    Trimmed =>
        /\ ( /\ images[1].fg # NoBox
             /\ images[1].fg[1] <= TrimPadding
             /\ images[1].fg[2] <= TrimPadding
             /\ images[1].fg[3] >= images[1].w - TrimPadding
             /\ images[1].fg[4] >= images[1].h - TrimPadding )
           => (floor_plan_image = images[1] /\ trim_box = NoBox)
        /\ ~trim_failed =>
               trim_whitespace(floor_plan_image, TrimPadding).image = floor_plan_image

\* C13 witness: content with a margin narrower than the padding on every
\* side, returned as it is.
C13_Witness ==
    /\ Trimmed
    /\ ~trim_failed
    /\ images[1].fg # NoBox
    /\ images[1].fg[1] > 0
    /\ images[1].fg[2] > 0
    /\ images[1].fg[3] < images[1].w
    /\ images[1].fg[4] < images[1].h
    /\ floor_plan_image = images[1]

\* C14: when the body of trim_whitespace raises, the caller gets the
\* input image back, and every trim step, raising or not, hands the run
\* on to the zoom plan.
C14_TrimFailureIsNotFatal ==
    [][pc = "trim" =>
         /\ pc' = "plan"
         /\ trim_failed' => (floor_plan_image' = floor_plan_image /\ trim_box' = NoBox)]_vars

\* C14 witness: a raster with margins to crop whose trim raised, tiled
\* untrimmed to the end.
C14_Witness ==
    /\ pc = "done"
    /\ trim_failed
    /\ trim_whitespace(images[1], TrimPadding).box # NoBox
    /\ floor_plan_image = images[1]
    /\ metadata.source_image.width = images[1].w

\* C16: the tile size of a run is one of 128, 256, 512, 1024: a supported
\* configured value is kept, any other one is replaced by 256; the same
\* value is written to the metadata, and the run goes on.
C16_TileSizeSupported ==
    pc # "start" =>
        /\ tile_size \in SupportedTileSizes
        /\ env.TILE_SIZE \in SupportedTileSizes => tile_size = env.TILE_SIZE
        /\ env.TILE_SIZE \notin SupportedTileSizes => tile_size = DefaultTileSize
        /\ \A z \in DOMAIN pyramid :
               \A i \in DOMAIN pyramid[z] :
                   /\ pyramid[z][i].img.w \in SupportedTileSizes
                   /\ pyramid[z][i].img.h = pyramid[z][i].img.w
        /\ pc \in {"done", "annotate", "placed", "drawn"} =>
               metadata.tile_size \in SupportedTileSizes

\* C16 witness: a run configured with an unsupported tile size completed
\* with 256-pixel tiles.
C16_Witness ==
    /\ pc = "done"
    /\ env.TILE_SIZE \notin SupportedTileSizes
    /\ tile_size = 256
    /\ metadata.tile_size = 256
    /\ metadata.total_tiles > 1

Composed == pc \in {"done", "annotate", "placed", "drawn"}

\* ceil(w*2^(z-maxZoom)/tileSize) * ceil(h*2^(z-maxZoom)/tileSize), the
\* products taken in the reals
ClaimedLevelTiles(z) ==
    CeilDiv(floor_plan_image.w, tile_size * Pow2(max_zoom - z))
    * CeilDiv(floor_plan_image.h, tile_size * Pow2(max_zoom - z))

\* the same with each side truncated to an integer before the division
TruncatedLevelTiles(z) ==
    CeilDiv(ScaledW(z), tile_size) * CeilDiv(ScaledH(z), tile_size)

RECURSIVE SumLevels(_, _, _)
SumLevels(lo, hi, truncated) ==
    IF lo > hi THEN 0
    ELSE (IF truncated THEN TruncatedLevelTiles(lo) ELSE ClaimedLevelTiles(lo))
         + SumLevels(lo + 1, hi, truncated)

\* the tile objects upload_tiles_to_blob writes for the finished pyramid
UploadedTiles == TileBlobs(pyramid, Descending(min_zoom, max_zoom))

ProjectedWidth == PyInt(RMul(RInt(doc[1].w), PDF_SCALE))

ProjectedHeight == PyInt(RMul(RInt(doc[1].h), PDF_SCALE))

\* C18: once app.py has chosen the scale of a document with a page, the
\* projected raster int(page_w*scale) * int(page_h*scale) is at most
\* 300,000,000 pixels: an over-ceiling request is scaled down.
C18_ProjectedRasterWithinCeiling ==
    (variant = "app" /\ pc = "convert" /\ Len(doc) > 0) =>
        ProjectedWidth * ProjectedHeight <= MAX_SAFE_PIXELS

\* files whose rasterization yields no image
NoImageFiles == {f \in FileIds : FileDoc(f) = <<>>}

\* files whose page is too thin for the lowest zoom level of the plan
ThinFiles == {f \in FileIds : FileDoc(f) # <<>> /\ FileDoc(f)[1].h = 1}

\* C19: a run whose rasterization yields no image, or whose tiling
\* raises, fails: its job is never COMPLETED, it ends FAILED, and nothing
\* is stored under its file_id.
C19_FailedRunUploadsNothing ==
    \A j \in DOMAIN task :
        task[j].file_id \in NoImageFiles \cup ThinFiles =>
            /\ jobs_store[j].status # "completed"
            /\ task[j].pc # "upload"
            /\ task[j].sent = 0
            /\ BlobsOf(task[j].file_id) = {}
            /\ (task[j].pc = "done" /\ jobs_store[j].progress >= 10) =>
                   /\ jobs_store[j].status = "failed"
                   /\ jobs_store[j].progress =
                          IF task[j].file_id \in NoImageFiles THEN 15 ELSE 30

\* C19 witness: one job failed for want of an image, another one in the
\* tiling, and nothing is stored.
C19_Witness ==
    /\ \E j \in DOMAIN task :
        /\ task[j].file_id \in NoImageFiles
        /\ task[j].pc = "done"
        /\ jobs_store[j].status = "failed"
        /\ jobs_store[j].progress = 15
    /\ \E j \in DOMAIN task :
        /\ task[j].file_id \in ThinFiles
        /\ task[j].pc = "done"
        /\ jobs_store[j].status = "failed"
        /\ jobs_store[j].progress = 30
    /\ blobs = {}

\* the raster sliced at zoom z is size[1] wide and size[2] high: no tile
\* is cut from beyond it and one tile ends at its bottom right corner
SlicedRasterIs(z, size) ==
    /\ \A i \in DOMAIN pyramid[z] :
           /\ pyramid[z][i].img.src[3] <= size[1]
           /\ pyramid[z][i].img.src[4] <= size[2]
    /\ \E i \in DOMAIN pyramid[z] :
           /\ pyramid[z][i].img.src[3] = size[1]
           /\ pyramid[z][i].img.src[4] = size[2]

\* C20 as stated: the raster sliced at zoom z measures
\* round(width*2^(z-maxZoom)) by round(height*2^(z-maxZoom)).
C20_ClaimedRoundedSize ==
    \A z \in DOMAIN pyramid :
        SlicedRasterIs(z, <<RoundDiv(floor_plan_image.w, Pow2(max_zoom - z)),
                            RoundDiv(floor_plan_image.h, Pow2(max_zoom - z))>>)

\* C20 amended: the raster sliced at zoom z measures
\* floor(width*2^(z-maxZoom)) by floor(height*2^(z-maxZoom)), the
\* fractions dropped, and at z = maxZoom it is the source image, width by
\* height.
C20_TruncatedSize ==
    \A z \in DOMAIN pyramid :
        /\ SlicedRasterIs(z, <<ScaledW(z), ScaledH(z)>>)
        /\ z = max_zoom => SlicedRasterIs(z, <<floor_plan_image.w, floor_plan_image.h>>)

\* C20 witness: a level below maxZoom was sliced whose truncated width is
\* not the rounded one, next to the level of the source image.
C20_Witness ==
    /\ Planned
    /\ max_zoom \in DOMAIN pyramid
    /\ SlicedRasterIs(max_zoom, <<floor_plan_image.w, floor_plan_image.h>>)
    /\ \E z \in DOMAIN pyramid :
        /\ z < max_zoom
        /\ ScaledW(z) # RoundDiv(floor_plan_image.w, Pow2(max_zoom - z))
        /\ SlicedRasterIs(z, <<ScaledW(z), ScaledH(z)>>)

\* C21 as stated: every zoom level of the plan of an image at least one
\* pixel wide and high has a scaled raster at least one pixel wide and
\* high, so no level raises and every level has a tile.
C21_EveryLevelNonEmpty ==
    /\ Planned =>
           \A z \in min_zoom..max_zoom : ScaledW(z) >= 1 /\ ScaledH(z) >= 1
    /\ (pc = "failed" /\ images # <<>>) => todo = <<>>
    /\ \A z \in DOMAIN pyramid : Len(pyramid[z]) >= 1

\* C22: when trim_whitespace crops a W x H image with foreground box
\* (l, t, r, b), the crop box is (max(0, l-padding), max(0, t-padding),
\* min(W, r+padding), min(H, b+padding)); the result has the size of that
\* box, holds the whole foreground, lies within the input and is smaller
\* than the input in width or in height.
C22_CropBoxIsPaddedClampedBox ==
    (Trimmed /\ trim_box # NoBox) =>
        LET in  == images[1]
            out == floor_plan_image
        IN  /\ in.fg # NoBox
            /\ trim_box = << Max(0, in.fg[1] - TrimPadding), Max(0, in.fg[2] - TrimPadding),
                             Min(in.w, in.fg[3] + TrimPadding),
                             Min(in.h, in.fg[4] + TrimPadding) >>
            /\ out.w = trim_box[3] - trim_box[1]
            /\ out.h = trim_box[4] - trim_box[2]
            /\ trim_box[1] <= in.fg[1] /\ trim_box[2] <= in.fg[2]
            /\ in.fg[3] <= trim_box[3] /\ in.fg[4] <= trim_box[4]
            /\ out.fg = << in.fg[1] - trim_box[1], in.fg[2] - trim_box[2],
                           in.fg[3] - trim_box[1], in.fg[4] - trim_box[2] >>
            /\ 0 <= out.fg[1] /\ 0 <= out.fg[2] /\ out.fg[3] <= out.w /\ out.fg[4] <= out.h
            /\ 0 <= trim_box[1] /\ 0 <= trim_box[2]
            /\ trim_box[3] <= in.w /\ trim_box[4] <= in.h
            /\ out.w <= in.w /\ out.h <= in.h
            /\ out.w < in.w \/ out.h < in.h

\* C22 witness: a crop clamped at the left edge and padded on the top.
C22_Witness ==
    /\ Trimmed
    /\ trim_box # NoBox
    /\ images[1].fg[1] < TrimPadding
    /\ trim_box[1] = 0
    /\ trim_box[2] = images[1].fg[2] - TrimPadding
    /\ floor_plan_image.h < images[1].h

\* C23: tile_image takes the zoom levels in strictly descending order,
\* from the highest to the lowest of the plan; the resample of a level is
\* closed before the next one is made, so at most one resample is open at
\* any time, and the source image is never closed by the tiler.
C23_DescendingOneResampleAtATime ==
    [][/\ pyramid' # pyramid =>
              \E z \in DOMAIN pyramid' :
                  /\ DOMAIN pyramid' = DOMAIN pyramid \cup {z}
                  /\ z \notin DOMAIN pyramid
                  /\ \A y \in DOMAIN pyramid : z < y /\ y <= max_zoom
                  /\ DOMAIN pyramid # {} => z + 1 \in DOMAIN pyramid
                  /\ DOMAIN pyramid = {} => z = max_zoom
                  /\ pc' = "meta" <=> z = min_zoom
       /\ pc' \in {"tile", "meta", "done"} =>
              /\ SourceRaster \in live'
              /\ Cardinality(live' \ {SourceRaster}) <= 1
              /\ scaled_img' = NoRaster => live' = {SourceRaster}
              /\ scaled_img' # NoRaster => live' = {SourceRaster, scaled_img'}]_vars

\* C23 witness: the second resample of a run is open, alone with the
\* source image, the first one sliced and closed.
C23_Witness ==
    /\ pc = "tile"
    /\ Cardinality(DOMAIN pyramid) = 2
    /\ scaled_img = Resample(max_zoom - 2)
    /\ live = {SourceRaster, scaled_img}

\* C24 as stated: the pdf_scale written to the metadata is the scale the
\* first page was rendered at, the reduction for max_dimension included,
\* so that page.width*pdf_scale and page.height*pdf_scale are within one
\* pixel of the width and height of the raster before the trim.
C24_PersistedScaleIsAppliedScale ==
    Composed =>
        LET dw == RSub(RMul(RInt(doc[1].w), metadata.pdf_scale), RInt(images[1].w))
            dh == RSub(RMul(RInt(doc[1].h), metadata.pdf_scale), RInt(images[1].h))
        IN  /\ metadata.pdf_scale = ActualScale(variant, doc[1], PDF_SCALE, env.MAX_DIMENSION)
            /\ RLe(RAbs(dw), RInt(1))
            /\ RLe(RAbs(dh), RInt(1))

\* C25 as stated: of two requests for the same file_id at most one
\* generates and uploads a pyramid; the other one finds the floorplan
\* stored and uploads nothing.
C25_AtMostOneUploaderPerFile ==
    \A j, k \in DOMAIN task :
        (j # k /\ task[j].file_id = task[k].file_id) =>
            ~(task[j].sent > 0 /\ task[k].sent > 0)

\* C26: the status of a job moves from queued to processing and from
\* processing to completed or to failed, and in no other way; completed
\* and failed are final; a job is created queued and its record is never
\* removed from jobs_store.
C26_StatusTransitions ==
    [][/\ \A j \in DOMAIN jobs_store :
              /\ j \in DOMAIN jobs_store'
              /\ jobs_store'[j].status # jobs_store[j].status =>
                     <<jobs_store[j].status, jobs_store'[j].status>> \in
                         { <<"queued", "processing">>,
                           <<"processing", "completed">>,
                           <<"processing", "failed">> }
       /\ \A j \in DOMAIN jobs_store' \ DOMAIN jobs_store :
              jobs_store'[j].status = "queued"]_vars

\* C26 witness: one job completed and the other one failed after an
\* upload of its own.
C26_Witness ==
    /\ \E j \in DOMAIN jobs_store : jobs_store[j].status = "completed"
    /\ \E j \in DOMAIN jobs_store : jobs_store[j].status = "failed" /\ task[j].sent > 0
    /\ \A j \in DOMAIN task : task[j].pc = "done"

\* C27: every job process_floorplan created is eventually completed or
\* failed, when its background task is scheduled and each of its calls
\* returns or raises.
C27_JobEventuallyEnds ==
    \A j \in 1..MaxJobs :
        (j \in DOMAIN jobs_store) ~>
            (j \in DOMAIN jobs_store /\ jobs_store[j].status \in {"completed", "failed"})

\* C27 witness: a job that failed in the middle of its upload and
\* another one that failed in the processing call have both ended.
C27_Witness ==
    /\ \E j \in DOMAIN jobs_store :
        /\ jobs_store[j].status = "failed"
        /\ task[j].pc = "done"
        /\ task[j].sent > 0
        /\ task[j].queue # <<>>
    /\ \E j \in DOMAIN jobs_store :
        /\ jobs_store[j].status = "failed"
        /\ task[j].pc = "done"
        /\ jobs_store[j].progress \in {15, 30}
\* C28: what get_job_status can read (it takes jobs_lock, so it sees the
\* store between two steps): a completed job has progress 100 and a result,
\* a job in any other status has no result, and the progress of a job
\* never goes down from one state to the next.
C28_ObservableJobState ==
    [][\A j \in DOMAIN jobs_store' :
          /\ jobs_store'[j].status = "completed"
                => (jobs_store'[j].progress = 100 /\ jobs_store'[j].result # None)
          /\ jobs_store'[j].status # "completed" => jobs_store'[j].result = None
          /\ j \in DOMAIN jobs_store
                => jobs_store'[j].progress >= jobs_store[j].progress]_vars

\* one job completed by a fresh run, another completed by the existence
\* check, both with progress 100 and a result
C28_Witness ==
    \E j, k \in DOMAIN jobs_store :
        /\ jobs_store[j].status = "completed" /\ jobs_store[j].result = "created"
        /\ jobs_store[j].progress = 100
        /\ jobs_store[k].status = "completed" /\ jobs_store[k].result = "exists"
        /\ jobs_store[k].progress = 100

\* failed_count of a report, 0 for a report that carries none
FailedCountOf(report) ==
    IF "failed_count" \in DOMAIN report THEN report.failed_count ELSE 0

\* the sum of deleted_count over results[i..]
RECURSIVE SumDeletedCount(_, _)
SumDeletedCount(results, i) ==
    IF i > Len(results) THEN 0
    ELSE results[i].deleted_count + SumDeletedCount(results, i + 1)

\* C29 as stated: every item attempts each listed blob, reports success
\* exactly when no deletion failed, and its counts add up to the number
\* of listed blobs; a mass request succeeds exactly when all its items
\* do and its total is the sum of the items' deleted_count.
C29_ClaimedDeleteReports ==
    \A k \in DOMAIN delete_log :
        LET e == delete_log[k]
        IN  /\ \A i \in DOMAIN e.items :
                LET it == e.items[i]
                IN  "success" \in DOMAIN it.report =>
                        /\ it.deleted \cup it.failed = it.listed
                        /\ it.report.success <=> (it.failed = {})
                        /\ it.report.deleted_count + FailedCountOf(it.report)
                               = Cardinality(it.listed)
            /\ e.endpoint = "mass_delete_floorplan" =>
                /\ e.response.success <=>
                       \A i \in DOMAIN e.items : e.items[i].report.success
                /\ e.response.total_blobs_deleted = SumDeletedCount(e.response.results, 1)

\* C29, amended: as stated for the items whose listing returned; an item
\* of a mass request whose listing raised is reported as failed with
\* deleted_count 0 although no deletion failed, and delete_floorplan
\* answers such a request with status 500 and no report.
C29_DeleteReports ==
    \A k \in DOMAIN delete_log :
        LET e == delete_log[k]
        IN  /\ \A i \in DOMAIN e.items :
                LET it == e.items[i]
                IN  IF it.listing_raised
                    THEN /\ it.deleted = {}
                         /\ IF e.endpoint = "mass_delete_floorplan"
                            THEN ~it.report.success /\ it.report.deleted_count = 0
                            ELSE it.report = [status_code |-> 500]
                    ELSE /\ it.deleted \cup it.failed = it.listed
                         /\ it.report.success <=> (it.failed = {})
                         /\ it.report.deleted_count + FailedCountOf(it.report)
                                = Cardinality(it.listed)
            /\ e.endpoint = "mass_delete_floorplan" =>
                /\ e.response.success <=>
                       \A i \in DOMAIN e.items : e.items[i].report.success
                /\ e.response.total_blobs_deleted = SumDeletedCount(e.response.results, 1)

\* C29 witness: a mass request of two items, the first with a deletion
\* that failed after one that went through, the second with every listed
\* blob deleted.
C29_Witness ==
    \E k \in DOMAIN delete_log :
        LET e == delete_log[k]
        IN  /\ e.endpoint = "mass_delete_floorplan"
            /\ Len(e.items) = 2
            /\ ~e.items[1].listing_raised /\ ~e.items[2].listing_raised
            /\ e.items[1].failed # {} /\ e.items[1].deleted # {}
            /\ e.items[2].failed = {} /\ e.items[2].deleted # {}
            /\ ~e.response.success
            /\ e.response.total_blobs_deleted = 2

\* C30: objects_drawn in the response of annotate-pdf is the number of
\* request objects that were drawn on the page; objects of an unknown
\* type and objects whose drawing raised are skipped, the others are
\* drawn, and the skipped ones are not counted.
C30_ObjectsDrawnIsDrawnCount ==
    \A k \in DOMAIN annotation_served :
        LET a == annotation_served[k]
        IN  /\ a.response.objects_drawn = Len(a.page.drawn)
            /\ \A i \in DOMAIN a.objects :
                    (\E d \in DOMAIN a.page.drawn : a.page.drawn[d][1] = i)
                        <=> (DrawnAs(a.objects[i]) # "unknown" /\ ~a.objects[i].raises)

====
